---------------------------- MODULE Spec2Model ----------------------------
(***************************************************************************)
(* A model of the recommendation engine of etf_smart_advisor               *)
(* (src/etf-backend/src/investment_engine_optimized.py).                   *)
(*                                                                         *)
(* One recommendation request is a run of get_daily_recommendation.  The   *)
(* market classifier, the instrument scorer, the allocator, the risk       *)
(* monitor and the advice generator are applied in that order to the       *)
(* request's inputs (user_profile, etf_data, market_data); pc is "done"    *)
(* once the request has returned its result, a success or a failure.       *)
(*                                                                         *)
(* Numbers.  The source computes in binary floating point; the model       *)
(* computes the same quantities exactly, as scaled integers:               *)
(*   - a score is carried in hundredths before rounding ("x100") and in    *)
(*     tenths once the source has applied round(x, 1) ("x10");             *)
(*   - investment_ratio is carried in tenths (0.8 is 8);                   *)
(*   - safety_multiplier is carried in twentieths (1.3 is 26);             *)
(*   - the facts of an instrument are carried in the unit that makes the   *)
(*     source's per-fact score an integer (see the comments of each fact). *)
(* Labels.  The source's Chinese labels are written in ASCII:              *)
(*   strategy   "aggressive" / "balanced" / "conservative"                 *)
(*   rating     "green" / "yellow" / "orange" / "red"                      *)
(*   trend      "up" / "flat" / "down"                                     *)
(*   indicator  "blue" / "yellow_blue" / "green" / "yellow_red" / "red"    *)
(* Optional values.  A dictionary entry is <<"num", n>> (a number),        *)
(* <<"absent", 0>> (the key is not in the dictionary, so .get() gives its  *)
(* default) or <<"null", 0>> (the key holds None, which raises TypeError   *)
(* as soon as it is compared or used in arithmetic).                       *)
(***************************************************************************)
EXTENDS Integers, Sequences, FiniteSets, TLC

VARIABLES
    user_profile,     \* the request profile: available_cash, num_etfs_to_invest
    etf_data,         \* the instrument batch, a sequence of instrument records
    market_data,      \* the market snapshot
    market_strategy,  \* result of OptimizedMarketAnalyzer.analyze
    etf_scores,       \* result of OptimizedETFScreener.screen_and_score
    positions,        \* result of OptimizedPositionCalculator.calculate
    risk_alerts,      \* result of OptimizedRiskMonitor.check_risks
    advice,           \* result of OptimizedAdviceGenerator.generate
    result,           \* what get_daily_recommendation returns
    escaped,          \* the operations that let an exception out
    pc,               \* position of get_daily_recommendation
    concurrent,       \* the locals of a second request on the same engine
    etf_list,         \* OptimizedDataFetcher: the batch of get_batch_etf_data
    workers,          \* its submitted get_etf_data calls, one per thread
    cache,            \* the keys of self.cache / self.cache_ttl
    cache_lock,       \* the thread that holds self.cache_lock, 0 when free
    valid_etfs,       \* the results get_batch_etf_data has collected
    batch_pc,         \* position of get_batch_etf_data
    now,              \* ImprovedDataFetcher: the clock, in seconds
    data_cache,       \* its self.cache: key -> last_updated of the entry
    last_call,        \* its last lookup: the key, the source, the entry's age
    portfolios,       \* PortfolioManager: self.portfolios, user -> portfolio
    last_added,       \* its last add_transaction: user, return value and
                      \* the stored portfolio before the call
    advice_request,   \* ImprovedInvestmentEngine: funds, risk level, the
                      \* recommended instruments and their quotes
    allocation,       \* result of _calculate_allocation
    recommendations,  \* result of _generate_detailed_recommendations
    advice_pc         \* position of generate_investment_advice

vars == <<user_profile, etf_data, market_data, market_strategy, etf_scores,
          positions, risk_alerts, advice, result, escaped, pc, concurrent,
          etf_list, workers, cache, cache_lock, valid_etfs, batch_pc,
          now, data_cache, last_call, portfolios, last_added,
          advice_request, allocation, recommendations, advice_pc>>

\* The state outside the first request: a step of get_daily_recommendation
\* reads and writes its own locals only.
fetcher == <<etf_list, workers, cache, cache_lock, valid_etfs, batch_pc>>

improved_fetcher == <<now, data_cache, last_call>>

portfolio_manager == <<portfolios, last_added>>

improved_engine ==
    <<advice_request, allocation, recommendations, advice_pc>>

outside == <<concurrent, fetcher, improved_fetcher, portfolio_manager,
             improved_engine>>

\* The state outside the request when nothing else runs.
NoRequest == [pc |-> "none"]

\* OptimizedDataFetcher after construction, with no batch requested.
FetcherIdle ==
    /\ etf_list = <<>>
    /\ workers = <<>>
    /\ cache = {}
    /\ cache_lock = 0
    /\ valid_etfs = <<>>
    /\ batch_pc = "none"

\* A lookup that has not happened.
NoCall == [key |-> "none", source |-> "none", age |-> 0]

\* ImprovedDataFetcher after construction.
ImprovedFetcherIdle ==
    /\ now = 0
    /\ data_cache = <<>>
    /\ last_call = NoCall

\* The portfolio get_user_portfolio creates for a new user.  Of a holding
\* the model keeps the symbol and the shares; prices, costs and values are
\* left out.
NewPortfolio ==
    [transactions |-> <<>>, holdings |-> <<>>, cash_balance |-> 0,
     total_cost |-> 0]

NoAdd == [user |-> "none", returned |-> TRUE, before |-> NewPortfolio]

\* PortfolioManager after construction on an absent data file.
PortfolioManagerIdle ==
    /\ portfolios = <<>>
    /\ last_added = NoAdd

\* ImprovedInvestmentEngine with no advice requested.
ImprovedEngineIdle ==
    /\ advice_request = "none"
    /\ allocation = <<>>
    /\ recommendations = <<>>
    /\ advice_pc = "none"

OutsideIdle ==
    /\ concurrent = NoRequest
    /\ FetcherIdle
    /\ ImprovedFetcherIdle
    /\ PortfolioManagerIdle
    /\ ImprovedEngineIdle


----------------------------------------------------------------------------
(* Optional values *)

Num(n) == <<"num", n>>
Absent == <<"absent", 0>>
Null == <<"null", 0>>

IsNum(v) == v[1] = "num"
IsNull(v) == v[1] = "null"

\* d.get(key, default): the default when the key is absent, the stored value
\* (None included) otherwise.
Get(v, default) == IF v[1] = "absent" THEN Num(default) ELSE v

Max(a, b) == IF a >= b THEN a ELSE b
Min(a, b) == IF a <= b THEN a ELSE b

----------------------------------------------------------------------------
(* OptimizedMarketAnalyzer *)

\* A vix score that is highest for the calmest market.
VixScoreCalmIsBest(vix) ==
    IF vix > 30 THEN 85
    ELSE IF vix > 25 THEN 70
    ELSE IF vix > 20 THEN 55
    ELSE IF vix > 15 THEN 45
    ELSE 90

\* _calculate_vix_score; vix is a number.
VixScore(vix) ==
    IF vix > 30 THEN 85
    ELSE IF vix > 25 THEN 70
    ELSE IF vix > 20 THEN 55
    ELSE IF vix > 15 THEN 45
    ELSE 30

\* The RSI part of the market's _calculate_technical_score.
MarketRsiScore(taiex_rsi) ==
    IF taiex_rsi < 30 THEN 85
    ELSE IF taiex_rsi < 40 THEN 70
    ELSE IF taiex_rsi < 60 THEN 50
    ELSE IF taiex_rsi < 70 THEN 35
    ELSE 20

\* {'up': 70, 'flat': 50, 'down': 30}.get(taiex_trend, 50)
TrendScore(taiex_trend) ==
    CASE taiex_trend = "up" -> 70
      [] taiex_trend = "flat" -> 50
      [] taiex_trend = "down" -> 30
      [] OTHER -> 50

\* The market's _calculate_technical_score, in tenths:
\* rsi_score * 0.7 + trend_score * 0.3.
MarketTechnicalScore10(taiex_rsi, taiex_trend) ==
    7 * MarketRsiScore(taiex_rsi) + 3 * TrendScore(taiex_trend)

\* _calculate_economic_score: score_map.get(indicator, 50)
EconomicScore(indicator) ==
    CASE indicator = "blue" -> 80
      [] indicator = "yellow_blue" -> 65
      [] indicator = "green" -> 50
      [] indicator = "yellow_red" -> 35
      [] indicator = "red" -> 20
      [] OTHER -> 50

\* The weights 0.4 / 0.4 / 0.2 of the engine's earlier variant.
TotalScore100EarlierWeights(vix_score, technical_score10, economic_score) ==
    40 * vix_score + 4 * technical_score10 + 20 * economic_score

\* total_score in hundredths:
\* vix_score * 0.3 + technical_score * 0.4 + economic_score * 0.3.
TotalScore100(vix_score, technical_score10, economic_score) ==
    30 * vix_score + 4 * technical_score10 + 30 * economic_score

AggressiveThreshold == 65
BalancedThreshold == 35

\* The aggressive strategy granted five points too early.
StrategyOfEarlyAggressive(total100) ==
    IF total100 >= (AggressiveThreshold - 5) * 100
    THEN [strategy |-> "aggressive", investment_ratio |-> 8]
    ELSE IF total100 >= BalancedThreshold * 100
    THEN [strategy |-> "balanced", investment_ratio |-> 6]
    ELSE [strategy |-> "conservative", investment_ratio |-> 4]

\* The strategy label and the investment ratio (in tenths) of a total score.
StrategyOf(total100) ==
    IF total100 >= AggressiveThreshold * 100
    THEN [strategy |-> "aggressive", investment_ratio |-> 8]
    ELSE IF total100 >= BalancedThreshold * 100
    THEN [strategy |-> "balanced", investment_ratio |-> 6]
    ELSE [strategy |-> "conservative", investment_ratio |-> 4]

\* Whether the body of analyze raises: market_data is None (None.get), a
\* None compared with a number, or an unhashable value used as a dictionary
\* key in the trend or indicator lookup.
AnalyzeRaises(md) ==
    \/ md.kind = "null"
    \/ IsNull(Get(md.vix, 20))
    \/ IsNull(Get(md.taiex_rsi, 50))
    \/ md.taiex_trend = "unhashable"
    \/ md.economic_indicator = "unhashable"

\* analyze's except branch.
AnalyzeFallback ==
    [strategy |-> "balanced", investment_ratio |-> 5,
     scores |-> [total_score |-> 500], indicators |-> "none"]

\* OptimizedMarketAnalyzer.analyze.  An absent taiex_trend is "flat" and an
\* absent economic_indicator is "green" (the .get defaults).
Analyze(md) ==
    IF AnalyzeRaises(md) THEN AnalyzeFallback
    ELSE
        LET vix == Get(md.vix, 20)[2]
            taiex_rsi == Get(md.taiex_rsi, 50)[2]
            taiex_trend == IF md.taiex_trend = "absent" THEN "flat"
                           ELSE md.taiex_trend
            economic_indicator == IF md.economic_indicator = "absent"
                                  THEN "green" ELSE md.economic_indicator
            vix_score == VixScore(vix)
            technical_score10 == MarketTechnicalScore10(taiex_rsi, taiex_trend)
            economic_score == EconomicScore(economic_indicator)
            total100 == TotalScore100(vix_score, technical_score10,
                                      economic_score)
            s == StrategyOf(total100)
        IN  [strategy |-> s.strategy,
             investment_ratio |-> s.investment_ratio,
             \* round(x, 1) of each score, in tenths; total100 is a
             \* multiple of 10 for every combination of the step scores
             scores |-> [vix_score |-> 10 * vix_score,
                         technical_score |-> technical_score10,
                         economic_score |-> 10 * economic_score,
                         total_score |-> total100 \div 10],
             indicators |-> "given"]

----------------------------------------------------------------------------
(* OptimizedETFScreener: the sub-scores *)

\* round(x, 1) of the value n / unit, in tenths (unit is 10 for hundredths,
\* 1000 for ten-thousandths).  A value that is half way between two tenths
\* in exact arithmetic goes up: that is what the source's floating point
\* gives for the bare instrument (45.85 is reported as 45.9) and for every
\* other half-way value of the instruments of this model.
Round1(n, unit) ==
    LET q == n \div unit
        r == n % unit
    IN  IF 2 * r >= unit THEN q + 1 ELSE q

\* A missing group or a missing fact read as None instead of the default.
FieldAbsentIsNone(group, v, default) ==
    IF group.kind = "absent" \/ v[1] = "absent" THEN Null ELSE v

\* The value of dictionary d's entry after d = etf.get(group, {}) and
\* d.get(field, default): an absent group is the empty dictionary.
Field(group, v, default) ==
    IF group.kind = "absent" THEN Num(default) ELSE Get(v, default)

\* The except branch of every sub-score: 50.0, in hundredths.
NeutralScore100 == 5000

\* _calculate_fundamental_score, in hundredths.  Units of the facts:
\* expense_ratio in 1/100, aum in 10^8, dividend_yield in 1/2000,
\* sharpe_ratio in 1/50, so that the defaults 0.5, 10^9, 0.03 and 0.0 are
\* 50, 10, 60 and 0.
FundamentalScore100(etf) ==
    LET fundamental == etf.fundamental_indicators
        expense_ratio == Field(fundamental, fundamental.expense_ratio, 50)
        aum == Field(fundamental, fundamental.aum, 10)
        dividend_yield == Field(fundamental, fundamental.dividend_yield, 60)
        sharpe_ratio == Field(fundamental, fundamental.sharpe_ratio, 0)
        raises == \/ fundamental.kind = "null"
                  \/ IsNull(expense_ratio) \/ IsNull(aum)
                  \/ IsNull(dividend_yield) \/ IsNull(sharpe_ratio)
        expense_score == Max(0, 100 - expense_ratio[2])
        aum_score == Min(100, aum[2])
        dividend_score == Min(100, dividend_yield[2])
        sharpe_score == Max(0, Min(100, sharpe_ratio[2] + 50))
    IN  IF raises THEN NeutralScore100
        ELSE 30 * expense_score + 20 * aum_score
             + 30 * dividend_score + 20 * sharpe_score

\* The RSI part of the instrument's _calculate_technical_score.
RsiScore(rsi) ==
    IF 30 <= rsi /\ rsi <= 70 THEN 80
    ELSE IF rsi < 30 THEN 90
    ELSE 40

\* The moving-average part.  The result is <<raised, score>>: Python's
\* chained comparisons evaluate ma50 only after current_price > ma20 or
\* current_price < ma20 was found true.
MaScore(current_price, ma20, ma50) ==
    IF IsNull(current_price) \/ IsNull(ma20) THEN <<TRUE, 0>>
    ELSE IF current_price[2] > ma20[2]
    THEN IF IsNull(ma50) THEN <<TRUE, 0>>
         ELSE IF ma20[2] > ma50[2] THEN <<FALSE, 80>> ELSE <<FALSE, 60>>
    ELSE IF current_price[2] < ma20[2]
    THEN IF IsNull(ma50) THEN <<TRUE, 0>>
         ELSE IF ma20[2] < ma50[2] THEN <<FALSE, 30>> ELSE <<FALSE, 50>>
    ELSE <<FALSE, 50>>

\* The Bollinger-band part, <<raised, score>>; current_price is a number
\* here (MaScore has compared it already).
BbScore(current_price, bb_upper, bb_lower, bb_middle) ==
    IF IsNull(bb_lower) THEN <<TRUE, 0>>
    ELSE IF current_price < bb_lower[2] THEN <<FALSE, 85>>
    ELSE IF IsNull(bb_upper) THEN <<TRUE, 0>>
    ELSE IF current_price > bb_upper[2] THEN <<FALSE, 35>>
    ELSE IF bb_lower[2] < current_price
    THEN IF IsNull(bb_middle) THEN <<TRUE, 0>>
         ELSE IF current_price < bb_middle[2] THEN <<FALSE, 70>>
         ELSE <<FALSE, 50>>
    ELSE <<FALSE, 50>>

\* _calculate_technical_score, in hundredths.  macd and signal are only
\* compared; the moving averages and the bands are in price units.
TechnicalScore100(etf) ==
    LET technical == etf.technical_indicators
        rsi == Field(technical, technical.rsi, 50)
        macd == Field(technical, technical.macd, 0)
        signal == Field(technical, technical.signal, 0)
        current_price == Field(technical, technical.ma_current_price, 50)
        ma20 == Field(technical, technical.ma20, 50)
        ma50 == Field(technical, technical.ma50, 50)
        bb_upper == Field(technical, technical.bb_upper, 52)
        bb_lower == Field(technical, technical.bb_lower, 48)
        bb_middle == Field(technical, technical.bb_middle, 50)
        ma == MaScore(current_price, ma20, ma50)
        bb == BbScore(current_price[2], bb_upper, bb_lower, bb_middle)
        raises == \/ technical.kind = "null"
                  \/ IsNull(rsi)
                  \/ IsNull(macd) \/ IsNull(signal)
                  \/ ma[1]
                  \/ bb[1]
        macd_score == IF macd[2] > signal[2] THEN 70 ELSE 40
    IN  IF raises THEN NeutralScore100
        ELSE 30 * RsiScore(rsi[2]) + 25 * macd_score
             + 25 * ma[2] + 20 * bb[2]

\* _calculate_liquidity_score, in hundredths.  Units of the facts:
\* avg_volume in 10^5, volume_volatility in 1/200, bid_ask_spread in
\* 1/1000, so that the defaults 10^6, 0.3 and 0.1 are 10, 60 and 100.
LiquidityScore100(etf) ==
    LET liquidity == etf.liquidity_indicators
        avg_volume == Field(liquidity, liquidity.avg_volume, 10)
        volume_volatility == Field(liquidity, liquidity.volume_volatility, 60)
        bid_ask_spread == Field(liquidity, liquidity.bid_ask_spread, 100)
        raises == \/ liquidity.kind = "null"
                  \/ IsNull(avg_volume) \/ IsNull(volume_volatility)
                  \/ IsNull(bid_ask_spread)
        volume_score == Min(100, avg_volume[2])
        volatility_score == Max(0, 100 - volume_volatility[2])
        spread_score == Max(0, 100 - bid_ask_spread[2])
    IN  IF raises THEN NeutralScore100
        ELSE 50 * volume_score + 25 * volatility_score + 25 * spread_score

\* price_levels.get('price_percentile', 50) of technical_indicators, and
\* whether reading it raises (technical_indicators is None, or the
\* percentile is None and is compared).
PricePercentile(etf) ==
    Field(etf.technical_indicators,
          etf.technical_indicators.price_percentile, 50)

PricePercentileRaises(etf) ==
    etf.technical_indicators.kind = "null" \/ IsNull(PricePercentile(etf))

\* _calculate_price_level_score, in hundredths.
PriceLevelScore100(etf) ==
    LET price_percentile == PricePercentile(etf)[2]
    IN  IF PricePercentileRaises(etf) THEN NeutralScore100
        ELSE IF price_percentile <= 20 THEN 9000
        ELSE IF price_percentile <= 40 THEN 7500
        ELSE IF price_percentile <= 60 THEN 5000
        ELSE IF price_percentile <= 80 THEN 3500
        ELSE 2000

\* _get_price_level_info: the percentile, the level, the signal and the
\* safety multiplier (in twentieths: 1.3, 1.15, 1.0, 0.8, 0.6); the
\* except branch gives the middle level.
PriceLevelInfo(etf) ==
    LET price_percentile == PricePercentile(etf)[2]
    IN  IF PricePercentileRaises(etf)
        THEN [percentile |-> 50, level |-> "middle", signal |-> "yellow",
              safety_multiplier |-> 20]
        ELSE IF price_percentile <= 20
        THEN [percentile |-> price_percentile, level |-> "very_low",
              signal |-> "green", safety_multiplier |-> 26]
        ELSE IF price_percentile <= 40
        THEN [percentile |-> price_percentile, level |-> "low",
              signal |-> "green", safety_multiplier |-> 23]
        ELSE IF price_percentile <= 60
        THEN [percentile |-> price_percentile, level |-> "middle",
              signal |-> "yellow", safety_multiplier |-> 20]
        ELSE IF price_percentile <= 80
        THEN [percentile |-> price_percentile, level |-> "high",
              signal |-> "orange", safety_multiplier |-> 16]
        ELSE [percentile |-> price_percentile, level |-> "very_high",
              signal |-> "red", safety_multiplier |-> 12]

----------------------------------------------------------------------------
(* OptimizedETFScreener.screen_and_score *)

\* final_score before rounding, in ten-thousandths:
\* fundamental * 0.3 + technical * 0.4 + liquidity * 0.15 + price_level * 0.15
FinalScore10000HeavierPriceLevel(fundamental100, technical100, liquidity100, price_level100) ==
    30 * fundamental100 + 40 * technical100
    + 15 * liquidity100 + 25 * price_level100

FinalScore10000(fundamental100, technical100, liquidity100, price_level100) ==
    30 * fundamental100 + 40 * technical100
    + 15 * liquidity100 + 15 * price_level100

\* The rating of a final score (before rounding, in ten-thousandths).
RatingOf(final10000) ==
    IF final10000 >= 700000 THEN "green"
    ELSE IF final10000 >= 500000 THEN "yellow"
    ELSE IF final10000 >= 300000 THEN "orange"
    ELSE "red"

RecommendationOf(rating) ==
    CASE rating = "green" -> "strongly_recommended"
      [] rating = "yellow" -> "consider"
      [] rating = "orange" -> "consider_carefully"
      [] OTHER -> "not_recommended"

\* The scored_etf dictionary screen_and_score builds for one instrument;
\* the scores it reports are rounded to one decimal (tenths here).
ScoredEtf(etf) ==
    LET fundamental100 == FundamentalScore100(etf)
        technical100 == TechnicalScore100(etf)
        liquidity100 == LiquidityScore100(etf)
        price_level100 == PriceLevelScore100(etf)
        final10000 == FinalScore10000(fundamental100, technical100,
                                      liquidity100, price_level100)
        rating == RatingOf(final10000)
    IN  [symbol |-> etf.symbol,
         name |-> etf.name,
         current_price |-> Get(etf.current_price, 50)[2],
         final_score |-> Round1(final10000, 1000),
         rating |-> rating,
         recommendation |-> RecommendationOf(rating),
         scores |-> [fundamental |-> Round1(fundamental100, 10),
                     technical |-> Round1(technical100, 10),
                     liquidity |-> Round1(liquidity100, 10),
                     price_level |-> Round1(price_level100, 10)],
         price_level |-> PriceLevelInfo(etf)]

\* An unstable insertion: x goes before the elements of equal final_score.
RECURSIVE InsertBeforeEqual(_, _)
InsertBeforeEqual(x, sorted) ==
    IF sorted = <<>> THEN <<x>>
    ELSE IF Head(sorted).final_score > x.final_score
    THEN <<Head(sorted)>> \o InsertBeforeEqual(x, Tail(sorted))
    ELSE <<x>> \o sorted

\* list.sort(key = final_score, reverse = True) is stable: x goes after
\* every element whose final_score is at least its own.
RECURSIVE InsertByScore(_, _)
InsertByScore(x, sorted) ==
    IF sorted = <<>> THEN <<x>>
    ELSE IF Head(sorted).final_score >= x.final_score
    THEN <<Head(sorted)>> \o InsertByScore(x, Tail(sorted))
    ELSE <<x>> \o sorted

RECURSIVE SortByScore(_)
SortByScore(list) ==
    IF list = <<>> THEN <<>>
    ELSE InsertByScore(list[Len(list)],
                       SortByScore(SubSeq(list, 1, Len(list) - 1)))

\* Whether screen_and_score lets an exception out.  For an entry that is
\* not a dictionary the sub-scores catch the AttributeError of etf.get and
\* give 50, but _get_price_level_info calls etf.get again in its except
\* branch, and so does the except branch of screen_and_score in its log
\* message: that last AttributeError is not caught.
ScreenAndScoreRaises(batch) ==
    \E i \in 1..Len(batch) : batch[i].kind # "dict"

\* screen_and_score on a batch of dictionaries: every instrument of the
\* batch is scored (none of the sub-scores lets an exception out), then
\* the list is sorted.
ScreenAndScore(batch) ==
    SortByScore([i \in 1..Len(batch) |-> ScoredEtf(batch[i])])

----------------------------------------------------------------------------
(* OptimizedPositionCalculator.calculate *)

QualifyFloor == 40
FallbackCount == 3
AutoCount == 5

\* list[:n]
Prefix(list, n) == SubSeq(list, 1, Min(n, Len(list)))

\* The fallback taking one instrument more than the source's three.
QualifiedEtfsWiderFallback(scores) ==
    LET qualified == SelectSeq(scores,
                               LAMBDA e : e.final_score >= QualifyFloor * 10)
    IN  IF qualified = <<>> THEN Prefix(scores, FallbackCount + 1)
        ELSE qualified

\* No fallback: nothing is selected when no instrument qualifies.
QualifiedEtfsNoFallback(scores) ==
    SelectSeq(scores, LAMBDA e : e.final_score >= QualifyFloor * 10)

\* [etf for etf in etf_scores if etf['final_score'] >= 40], or the first
\* three of the list when none qualifies.
QualifiedEtfs(scores) ==
    LET qualified == SelectSeq(scores,
                               LAMBDA e : e.final_score >= QualifyFloor * 10)
    IN  IF qualified = <<>> THEN Prefix(scores, FallbackCount) ELSE qualified

\* The automatic selection taking one instrument more than the source's
\* five.
SelectedEtfsWiderAuto(scores, num_etfs_to_invest) ==
    IF num_etfs_to_invest > 0
    THEN Prefix(QualifiedEtfs(scores), num_etfs_to_invest)
    ELSE Prefix(QualifiedEtfs(scores), AutoCount + 1)

SelectedEtfs(scores, num_etfs_to_invest) ==
    IF num_etfs_to_invest > 0
    THEN Prefix(QualifiedEtfs(scores), num_etfs_to_invest)
    ELSE Prefix(QualifiedEtfs(scores), AutoCount)

\* A weight that falls as the final score rises.
AdjustedWeightFavoursLowScores(etf) ==
    Max(100, 1000 - etf.final_score) * etf.price_level.safety_multiplier

\* adjusted_weight = max(0.1, final_score / 100) * safety_multiplier, in
\* 1/20000.
AdjustedWeight(etf) ==
    Max(100, etf.final_score) * etf.price_level.safety_multiplier

RECURSIVE SumWeights(_)
SumWeights(list) ==
    IF list = <<>> THEN 0
    ELSE AdjustedWeight(Head(list)) + SumWeights(Tail(list))

\* int(x) of a quotient a / b with b > 0: towards zero.
TruncDiv(a, b) == IF a >= 0 THEN a \div b ELSE -((-a) \div b)

\* The quotient and the remainder of a * b by c, for a >= 0, b >= 0 and
\* c > 0, by doubling: the product a * b, which may pass the range of the
\* model's integers, is never formed.
RECURSIVE MulDivNat(_, _, _)
MulDivNat(a, b, c) ==
    IF b = 0 THEN <<0, 0>>
    ELSE LET half == MulDivNat(a, b \div 2, c)
             q2 == 2 * half[1] + (2 * half[2]) \div c
             r2 == (2 * half[2]) % c
         IN  IF b % 2 = 0 THEN <<q2, r2>>
             ELSE <<q2 + (a \div c) + ((r2 + (a % c)) \div c),
                    (r2 + (a % c)) % c>>

\* int(a * b / c) for b >= 0 and c > 0: towards zero.
TruncMulDiv(a, b, c) ==
    IF a >= 0 THEN MulDivNat(a, b, c)[1] ELSE -MulDivNat(-a, b, c)[1]

\* Shares rounded up instead of down.
SharesRoundedUp(available_cash, ratio10, weight, total_weight, price) ==
    IF price > 0
    THEN TruncDiv(available_cash * ratio10 * weight
                  + 10 * total_weight * price - 1,
                  10 * total_weight * price)
    ELSE 0

\* Shares without the guard on the sign of the price.
SharesUnguarded(available_cash, ratio10, weight, total_weight, price) ==
    IF price = 0 THEN 0
    ELSE LET num == available_cash * ratio10 * weight
             den == 10 * total_weight * price
         IN  IF den > 0 THEN TruncDiv(num, den) ELSE TruncDiv(-num, -den)

\* shares = int(investment_amount / price) if price > 0 else 0, where
\* investment_amount = available_cash * ratio * weight / total_weight and
\* ratio is in tenths.
Shares(available_cash, ratio10, weight, total_weight, price) ==
    IF price > 0
    THEN TruncMulDiv(available_cash * ratio10, weight,
                     10 * total_weight * price)
    ELSE 0

\* The entry of final_positions for one selected instrument; weight is the
\* normalized weight as the pair <<weight, total_weight>>.
Position(etf, shares, weight, total_weight) ==
    [symbol |-> etf.symbol,
     name |-> etf.name,
     shares |-> shares,
     price |-> etf.current_price,
     amount |-> shares * etf.current_price,
     weight |-> <<weight, total_weight>>,
     rating |-> etf.rating,
     recommendation |-> etf.recommendation,
     price_level |-> etf.price_level,
     scores |-> etf.scores]

RECURSIVE SizePositions(_, _, _, _)
SizePositions(selected, available_cash, ratio10, total_weight) ==
    IF selected = <<>> THEN <<>>
    ELSE LET etf == Head(selected)
             weight == AdjustedWeight(etf)
             shares == Shares(available_cash, ratio10, weight, total_weight,
                              etf.current_price)
             rest == SizePositions(Tail(selected), available_cash, ratio10,
                                   total_weight)
         IN  IF shares > 0
             THEN <<Position(etf, shares, weight, total_weight)>> \o rest
             ELSE rest

\* The weights normalized over all qualified instruments instead of the
\* selected ones.
CalculateNormalizedOverQualified(available_cash, strategy, scores, num_etfs_to_invest) ==
    LET selected == SelectedEtfs(scores, num_etfs_to_invest)
    IN  IF scores = <<>> \/ selected = <<>> THEN <<>>
        ELSE SizePositions(selected, available_cash,
                           strategy.investment_ratio,
                           SumWeights(QualifiedEtfs(scores)))

\* calculate(available_cash, market_strategy, etf_scores, num_etfs_to_invest)
Calculate(available_cash, strategy, scores, num_etfs_to_invest) ==
    LET selected == SelectedEtfs(scores, num_etfs_to_invest)
    IN  IF scores = <<>> \/ selected = <<>> THEN <<>>
        ELSE SizePositions(selected, available_cash,
                           strategy.investment_ratio, SumWeights(selected))

----------------------------------------------------------------------------
(* OptimizedRiskMonitor.check_risks *)

Alert(type, level) == [type |-> type, level |-> level]

\* The breadth check: the share of green instruments under 10% is a high
\* market_risk, under 20% a medium one; no alert for the empty list.
BreadthAlerts(scores) ==
    LET green_count == Len(SelectSeq(scores, LAMBDA etf : etf.rating = "green"))
        total_count == Len(scores)
    IN  IF total_count > 0 /\ 10 * green_count < total_count
        THEN <<Alert("market_risk", "high")>>
        ELSE IF total_count > 0 /\ 5 * green_count < total_count
        THEN <<Alert("market_risk", "medium")>>
        ELSE <<>>

\* The price-level check: more than 60% of the instruments have a red or
\* orange price-level signal.
ValuationAlerts(scores) ==
    LET high_price_count ==
            Len(SelectSeq(scores, LAMBDA etf :
                        etf.price_level.signal \in {"red", "orange"}))
    IN  IF 10 * high_price_count > 6 * Len(scores)
        THEN <<Alert("valuation_risk", "medium")>>
        ELSE <<>>

TechnicalAlerts(taiex_rsi) ==
    IF taiex_rsi > 75 THEN <<Alert("technical_risk", "medium")>> ELSE <<>>

VolatilityAlerts(vix) ==
    IF vix > 35 THEN <<Alert("volatility_risk", "high")>> ELSE <<>>

\* The volatility check run before the three other checks.
CheckRisksVolatilityFirst(scores, md) ==
    LET risks == BreadthAlerts(scores) \o ValuationAlerts(scores)
        taiex_rsi == Get(md.taiex_rsi, 50)
        vix == Get(md.vix, 20)
    IN  IF md.kind = "null" \/ IsNull(vix) THEN <<>>
        ELSE IF IsNull(taiex_rsi) THEN VolatilityAlerts(vix[2]) \o risks
        ELSE VolatilityAlerts(vix[2]) \o risks \o TechnicalAlerts(taiex_rsi[2])

\* check_risks(etf_scores, market_data).  The four checks run in one try
\* block: an exception (market_data is None, or a None taiex_rsi or vix is
\* compared) ends the block, and the alerts appended so far are returned.
CheckRisks(scores, md) ==
    LET risks == BreadthAlerts(scores) \o ValuationAlerts(scores)
        taiex_rsi == Get(md.taiex_rsi, 50)
        vix == Get(md.vix, 20)
    IN  IF md.kind = "null" \/ IsNull(taiex_rsi) THEN risks
        ELSE IF IsNull(vix) THEN risks \o TechnicalAlerts(taiex_rsi[2])
        ELSE risks \o TechnicalAlerts(taiex_rsi[2]) \o VolatilityAlerts(vix[2])

----------------------------------------------------------------------------
(* OptimizedAdviceGenerator.generate *)

\* [etf for etf in etf_scores if etf['final_score'] >= 70] of
\* _generate_investment_tips; final_score is the reported, rounded score.
HighScoreThreshold == 70

HighScoreEtfs(scores) ==
    SelectSeq(scores, LAMBDA etf : etf.final_score >= HighScoreThreshold * 10)

\* _generate_investment_tips: two tips of the strategy, and a third when
\* three instruments or more have a high score.
InvestmentTips(strategy, scores) ==
    (IF strategy.strategy = "aggressive"
     THEN <<"add_in_batches", "watch_strong_and_low">>
     ELSE IF strategy.strategy = "conservative"
     THEN <<"wait_for_pullback", "start_small">>
     ELSE <<"regular_investment", "balance_types">>)
    \o (IF Len(HighScoreEtfs(scores)) >= 3 THEN <<"diversify">> ELSE <<>>)

RiskLevel(alerts) ==
    IF Len(alerts) > 2 THEN "high"
    ELSE IF Len(alerts) > 0 THEN "medium"
    ELSE "low"

\* The value of a name that is None: the data fetcher takes the name from
\* info.get('longName', symbol), which is None when the key holds None.
NoName == "<None>"

\* Whether the body of generate raises: the keyword search of the specific
\* advice, '...' in etf.get('name', ''), fails on a name that is None.
GenerateRaises(scores) ==
    \E i \in 1..Len(scores) : scores[i].name = NoName

\* generate's except branch.
GenerateFallback ==
    [market_outlook |-> "unavailable",
     action_advice |-> "consult_adviser",
     specific_advice |-> <<>>,
     etf_distribution |->
         [green_lights |-> 0, yellow_lights |-> 0,
          orange_lights |-> 0, red_lights |-> 0],
     risk_level |-> "unknown",
     investment_tips |-> <<>>]

\* generate(market_strategy, etf_scores, risk_alerts, user_profile).  The
\* names of the model's instruments hold none of the keywords of the
\* specific advice (high dividend, technology), so specific_advice is
\* empty.
Generate(strategy, scores, alerts, profile) ==
    IF GenerateRaises(scores) THEN GenerateFallback ELSE
    LET green_lights == Len(SelectSeq(scores, LAMBDA etf : etf.rating = "green"))
        yellow_lights == Len(SelectSeq(scores, LAMBDA etf : etf.rating = "yellow"))
        orange_lights == Len(SelectSeq(scores, LAMBDA etf : etf.rating = "orange"))
        red_lights == Len(SelectSeq(scores, LAMBDA etf : etf.rating = "red"))
    IN  [market_outlook |->
             IF green_lights >= 3 THEN "positive"
             ELSE IF green_lights + yellow_lights >= 5 THEN "normal"
             ELSE "weak",
         action_advice |->
             IF strategy.strategy = "aggressive" THEN "enter_actively"
             ELSE IF strategy.strategy = "balanced" THEN "regular_investment"
             ELSE "stay_conservative",
         specific_advice |-> <<>>,
         etf_distribution |->
             [green_lights |-> green_lights, yellow_lights |-> yellow_lights,
              orange_lights |-> orange_lights, red_lights |-> red_lights],
         risk_level |-> RiskLevel(alerts),
         investment_tips |-> InvestmentTips(strategy, scores)]

----------------------------------------------------------------------------
(* The inputs of a request *)

Fundamental(expense_ratio, aum, dividend_yield, sharpe_ratio) ==
    [kind |-> "dict", expense_ratio |-> expense_ratio, aum |-> aum,
     dividend_yield |-> dividend_yield, sharpe_ratio |-> sharpe_ratio]

\* The instrument has no fundamental_indicators / the entry is None.
AbsentFundamental ==
    [Fundamental(Absent, Absent, Absent, Absent) EXCEPT !.kind = "absent"]
NullFundamental ==
    [Fundamental(Absent, Absent, Absent, Absent) EXCEPT !.kind = "null"]

\* rsi; macd and signal; moving_averages (current_price, ma20, ma50);
\* bollinger_bands (upper, lower, middle); price_levels (price_percentile).
Technical(rsi, macd, ma, bb, price_percentile) ==
    [kind |-> "dict", rsi |-> rsi, macd |-> macd[1], signal |-> macd[2],
     ma_current_price |-> ma[1], ma20 |-> ma[2], ma50 |-> ma[3],
     bb_upper |-> bb[1], bb_lower |-> bb[2], bb_middle |-> bb[3],
     price_percentile |-> price_percentile]

NoMacd == <<Absent, Absent>>
NoMa == <<Absent, Absent, Absent>>
NoBb == <<Absent, Absent, Absent>>

AbsentTechnical ==
    [Technical(Absent, NoMacd, NoMa, NoBb, Absent) EXCEPT !.kind = "absent"]
NullTechnical ==
    [Technical(Absent, NoMacd, NoMa, NoBb, Absent) EXCEPT !.kind = "null"]

Liquidity(avg_volume, volume_volatility, bid_ask_spread) ==
    [kind |-> "dict", avg_volume |-> avg_volume,
     volume_volatility |-> volume_volatility,
     bid_ask_spread |-> bid_ask_spread]

AbsentLiquidity ==
    [Liquidity(Absent, Absent, Absent) EXCEPT !.kind = "absent"]
NullLiquidity ==
    [Liquidity(Absent, Absent, Absent) EXCEPT !.kind = "null"]

\* An instrument of the batch.  The symbol and the name are always given,
\* and current_price is a number or absent.
Etf(symbol, current_price, fundamental, technical, liquidity) ==
    [kind |-> "dict",
     symbol |-> symbol, name |-> symbol, current_price |-> current_price,
     fundamental_indicators |-> fundamental,
     technical_indicators |-> technical,
     liquidity_indicators |-> liquidity]

\* An instrument that carries its symbol, name and price only.
BareEtf(symbol, current_price) ==
    Etf(symbol, current_price, AbsentFundamental, AbsentTechnical,
        AbsentLiquidity)

\* An entry of the batch that is not a dictionary (None, a string, a
\* number); the symbol only tells the entries of a batch apart.
NotADict(symbol) == [BareEtf(symbol, Absent) EXCEPT !.kind = "none"]

\* The instrument with the name None.
Unnamed(etf) == [etf EXCEPT !.name = NoName]

Market(vix, taiex_rsi, taiex_trend, economic_indicator) ==
    [kind |-> "dict", vix |-> vix, taiex_rsi |-> taiex_rsi,
     taiex_trend |-> taiex_trend, economic_indicator |-> economic_indicator]

\* market_data is None.
NullMarket == [Market(Absent, Absent, "absent", "absent") EXCEPT !.kind = "null"]

\* The request profile; an empty selected_etfs is no selection.
Profile(available_cash, num_etfs_to_invest, selected_etfs) ==
    [available_cash |-> available_cash,
     num_etfs_to_invest |-> num_etfs_to_invest,
     selected_etfs |-> selected_etfs]

----------------------------------------------------------------------------
(* The bounded input sets *)

\* Fact groups: in range, out of range, with an absent field, with a None.
StrongFundamental == Fundamental(Num(30), Num(100), Num(100), Num(50))
PoorFundamental == Fundamental(Num(150), Num(0), Num(0), Num(-60))

FundamentalChoices ==
    {AbsentFundamental, NullFundamental, StrongFundamental, PoorFundamental,
     Fundamental(Num(-500), Num(10), Num(60), Num(0)),
     Fundamental(Num(50), Num(-500), Num(-400), Num(0)),
     Fundamental(Absent, Num(100), Num(100), Num(50)),
     Fundamental(Num(30), Num(100), Null, Num(50))}

StrongTechnical ==
    Technical(Num(25), <<Num(2), Num(1)>>, <<Num(55), Num(52), Num(50)>>,
              <<Num(70), Num(60), Num(65)>>, Num(10))
WeakTechnical ==
    Technical(Num(80), <<Num(1), Num(2)>>, <<Num(45), Num(50), Num(55)>>,
              <<Num(44), Num(40), Num(42)>>, Num(90))

TechnicalChoices ==
    {AbsentTechnical, NullTechnical, StrongTechnical, WeakTechnical,
     Technical(Num(50), NoMacd, NoMa, NoBb, Num(30)),
     Technical(Num(50), NoMacd, NoMa, NoBb, Num(70)),
     Technical(Null, NoMacd, NoMa, NoBb, Num(30)),
     Technical(Num(50), NoMacd, <<Num(50), Num(50), Null>>, NoBb, Num(50)),
     Technical(Num(50), NoMacd, <<Num(55), Num(50), Null>>, NoBb, Num(50)),
     Technical(Num(50), NoMacd, NoMa, <<Num(52), Num(48), Null>>, Num(50)),
     Technical(Num(50), NoMacd, NoMa, NoBb, Null)}

StrongLiquidity == Liquidity(Num(100), Num(0), Num(0))
PoorLiquidity == Liquidity(Num(0), Num(250), Num(200))

LiquidityChoices ==
    {AbsentLiquidity, NullLiquidity, StrongLiquidity, PoorLiquidity,
     Liquidity(Num(-100), Num(60), Num(100)),
     Liquidity(Num(10), Num(-300), Num(-400)),
     Liquidity(Num(50), Absent, Num(40)),
     Liquidity(Num(50), Null, Num(40))}

PriceChoices == {Absent, Num(-10), Num(0), Num(25), Num(100)}

\* The fact profiles of the scoring runs: the bare instrument at every
\* price, and instruments varied in one fact group.
ScoreFacts ==
    {BareEtf("-", p) : p \in PriceChoices}
    \cup {Etf("-", Absent, f, AbsentTechnical, StrongLiquidity) :
            f \in FundamentalChoices}
    \cup {Etf("-", Absent, AbsentFundamental, t, StrongLiquidity) :
            t \in TechnicalChoices}
    \cup {Etf("-", Absent, AbsentFundamental, AbsentTechnical, l) :
            l \in LiquidityChoices}

WithSymbol(etf, symbol) ==
    [etf EXCEPT !.symbol = symbol,
                !.name = IF etf.name = NoName THEN NoName ELSE symbol]

Symbols == <<"A", "B", "C", "D", "E", "F", "G", "H">>

\* The ways to give k instruments pairwise distinct symbols among the
\* first n.
SymbolChoices(k, n) ==
    {h \in [1..k -> 1..n] : \A i, j \in 1..k : i # j => h[i] # h[j]}

\* The batch of the instruments f[1..k] under the symbols chosen by g.
BatchOf(f, g, k) == [i \in 1..k |-> WithSymbol(f[i], Symbols[g[i]])]

MaxBatch == 2

\* The instruments of the allocation runs: three that reach the
\* qualification floor (one of them at price 0) and four that do not (one
\* of them at a negative price).
AllocKinds ==
    {Etf("A", Num(100), StrongFundamental, StrongTechnical, StrongLiquidity),
     Etf("C", Num(25), AbsentFundamental, AbsentTechnical, AbsentLiquidity),
     Etf("D", Num(0), AbsentFundamental, AbsentTechnical, AbsentLiquidity),
     Etf("E", Num(25), AbsentFundamental, WeakTechnical, AbsentLiquidity),
     Etf("F", Absent, PoorFundamental, WeakTechnical, PoorLiquidity),
     Etf("G", Num(100), PoorFundamental, AbsentTechnical, AbsentLiquidity),
     Etf("H", Num(-10), PoorFundamental, AbsentTechnical, PoorLiquidity)}

MaxAllocBatch == 4

\* Batches of at most n distinct instruments of the given set.
DistinctBatches(kinds, n) ==
    UNION {{b \in [1..k -> kinds] :
              \A i, j \in 1..k : i # j => b[i] # b[j]} : k \in 0..n}

\* The instruments of the selection runs: six that reach the
\* qualification floor, two of them green, and one that does not.  B has
\* the final score 69.98: its rating is yellow and its reported score 70.0;
\* H has a negative fundamental score and the final score -40.9.
NearGreenFundamental == Fundamental(Num(48), Num(10), Num(20), Num(-20))

NegativeFundamental == Fundamental(Num(50), Num(-500), Num(-400), Num(0))

SelectKinds ==
    {Etf("A", Num(100), StrongFundamental, StrongTechnical, StrongLiquidity),
     Etf("B", Num(50), NearGreenFundamental, StrongTechnical, StrongLiquidity),
     Etf("C", Num(25), AbsentFundamental, AbsentTechnical, AbsentLiquidity),
     Etf("D", Num(50), StrongFundamental, AbsentTechnical, StrongLiquidity),
     Etf("E", Num(25), AbsentFundamental, StrongTechnical, AbsentLiquidity),
     Etf("G", Num(25), AbsentFundamental, AbsentTechnical, StrongLiquidity),
     Etf("H", Num(25), NegativeFundamental, WeakTechnical, PoorLiquidity)}

MaxSelectBatch == 6

SelectCountChoices == {0, 2, 6}

\* A capital that buys a unit of every selected instrument, and one that
\* does not.
SelectCashChoices == {300, 1000}

\* The entries of the malformed-batch runs.
RobustFacts ==
    {BareEtf("-", Num(25)), NotADict("-"), Unnamed(BareEtf("-", Num(25))),
     Etf("-", Num(100), StrongFundamental, StrongTechnical, StrongLiquidity)}

\* A scored instrument handed to calculate by a caller: the dictionary
\* screen_and_score would build, with the given final score (in tenths),
\* price and safety multiplier (in twentieths).
GivenScored(symbol, final_score, price, safety_multiplier) ==
    [symbol |-> symbol,
     name |-> symbol,
     current_price |-> price,
     final_score |-> final_score,
     rating |-> RatingOf(1000 * final_score),
     recommendation |-> RecommendationOf(RatingOf(1000 * final_score)),
     scores |-> [fundamental |-> final_score, technical |-> final_score,
                 liquidity |-> final_score, price_level |-> final_score],
     price_level |-> [percentile |-> 50, level |-> "middle",
                      signal |-> "yellow",
                      safety_multiplier |-> safety_multiplier]]

\* The scored lists of the direct calls of calculate: three instruments in
\* rank order, with the final scores 90, 70 and 50 or with final scores
\* among 90, 50 and 30, their prices 100, 50 and 25 in any order, one
\* safety multiplier for all.  On these inputs the floating-point quotient
\* investment_amount / price of the source and the exact quotient of the
\* model have the same integer part.
GivenFinalScores ==
    {<<900, 700, 500>>}
    \cup {f \in [1..3 -> {900, 500, 300}] : f[1] >= f[2] /\ f[2] >= f[3]}

GivenPrices ==
    {p \in [1..3 -> {100, 50, 25}] : {p[1], p[2], p[3]} = {100, 50, 25}}

GivenMultipliers == {12, 20, 23, 26}

GivenCashChoices == {1000, 100000}

GivenCountChoices == {0, 1, 3}

CashChoices == {-100, 0, 60, 1000}
CountChoices == {0, 1, 2}

VixChoices == {Absent, Null} \cup {Num(v) : v \in {15, 16, 20, 21, 25, 26, 30, 31, 35, 36, 40}}
RsiChoices == {Absent, Null} \cup {Num(r) : r \in {29, 30, 39, 40, 50, 59, 60, 69, 70, 75, 76}}
TrendChoices == {"absent", "up", "flat", "down", "other", "unhashable"}
IndicatorChoices ==
    {"absent", "blue", "yellow_blue", "green", "yellow_red", "red", "other",
     "unhashable"}

MarketChoices ==
    {NullMarket}
    \cup {Market(v, r, t, e) : v \in VixChoices, r \in RsiChoices,
                               t \in TrendChoices, e \in IndicatorChoices}

\* Markets that give the balanced, the aggressive and the conservative
\* strategy.
CalmMarket == Market(Num(16), Num(50), "flat", "green")
FearMarket == Market(Num(40), Num(29), "up", "blue")
GreedMarket == Market(Num(15), Num(76), "down", "red")

\* A market with a high vix and a high taiex_rsi at once.
PanicMarket == Market(Num(40), Num(76), "down", "red")

----------------------------------------------------------------------------
(* get_daily_recommendation *)

\* The state of a request that has not started.
Request(profile, batch, market) ==
    /\ user_profile = profile
    /\ etf_data = batch
    /\ market_data = market
    /\ market_strategy = "none"
    /\ etf_scores = <<>>
    /\ positions = <<>>
    /\ risk_alerts = <<>>
    /\ advice = "none"
    /\ result = "none"
    /\ escaped = {}
    /\ pc = "analyze"
    /\ OutsideIdle

\* The engine with no request in progress.
EngineIdle ==
    /\ user_profile = "none"
    /\ etf_data = <<>>
    /\ market_data = "none"
    /\ market_strategy = "none"
    /\ etf_scores = <<>>
    /\ positions = <<>>
    /\ risk_alerts = <<>>
    /\ advice = "none"
    /\ result = "none"
    /\ escaped = {}
    /\ pc = "none"

\* 1. market_strategy = self.market_analyzer.analyze(market_data)
StepAnalyze ==
    /\ pc = "analyze"
    /\ market_strategy' = Analyze(market_data)
    /\ pc' = "score"
    /\ UNCHANGED <<user_profile, etf_data, market_data, etf_scores, positions,
                   risk_alerts, advice, result, escaped>>
    /\ UNCHANGED outside

\* The batch handed to the scorer: the instruments of selected_etfs when
\* the profile selects any, the whole batch otherwise.
FilteredEtfData(profile, batch) ==
    IF profile.selected_etfs # {}
    THEN SelectSeq(batch, LAMBDA etf : etf.symbol \in profile.selected_etfs)
    ELSE batch

\* The failure get_daily_recommendation returns from its except branch.
Failure == [success |-> FALSE]

\* 2. etf_scores = self.etf_screener.screen_and_score(...); an exception
\* that screen_and_score lets out ends the request in the except branch.
StepScreenAndScore ==
    /\ pc = "score"
    /\ IF ScreenAndScoreRaises(FilteredEtfData(user_profile, etf_data))
       THEN /\ escaped' = escaped \cup {"screen_and_score"}
            /\ result' = Failure
            /\ pc' = "done"
            /\ UNCHANGED etf_scores
       ELSE /\ etf_scores' =
                 ScreenAndScore(FilteredEtfData(user_profile, etf_data))
            /\ pc' = "calculate"
            /\ UNCHANGED <<result, escaped>>
    /\ UNCHANGED <<user_profile, etf_data, market_data, market_strategy,
                   positions, risk_alerts, advice>>
    /\ UNCHANGED outside

\* 3. positions = self.position_calculator.calculate(...)
StepCalculate ==
    /\ pc = "calculate"
    /\ positions' = Calculate(user_profile.available_cash, market_strategy,
                              etf_scores, user_profile.num_etfs_to_invest)
    /\ pc' = "check_risks"
    /\ UNCHANGED <<user_profile, etf_data, market_data, market_strategy,
                   etf_scores, risk_alerts, advice, result, escaped>>
    /\ UNCHANGED outside

\* 4. risk_alerts = self.risk_monitor.check_risks(etf_scores, market_data)
StepCheckRisks ==
    /\ pc = "check_risks"
    /\ risk_alerts' = CheckRisks(etf_scores, market_data)
    /\ pc' = "generate"
    /\ UNCHANGED <<user_profile, etf_data, market_data, market_strategy,
                   etf_scores, positions, advice, result, escaped>>
    /\ UNCHANGED outside

\* The counts of etf_analysis in the result.
RecommendedFloor == 60

EtfAnalysis(batch, scores) ==
    [total_analyzed |-> Len(batch),
     qualified_etfs |->
         Len(SelectSeq(scores, LAMBDA etf : etf.final_score >= QualifyFloor * 10)),
     recommended_etfs |->
         Len(SelectSeq(scores, LAMBDA etf : etf.final_score >= RecommendedFloor * 10))]

\* 5. advice = self.advice_generator.generate(...), and the return.
StepGenerate ==
    /\ pc = "generate"
    /\ advice' = Generate(market_strategy, etf_scores, risk_alerts,
                          user_profile)
    /\ result' = [success |-> TRUE,
                  etf_analysis |-> EtfAnalysis(etf_data, etf_scores)]
    /\ pc' = "done"
    /\ UNCHANGED <<user_profile, etf_data, market_data, market_strategy,
                   etf_scores, positions, risk_alerts, escaped>>
    /\ UNCHANGED outside

Next ==
    \/ StepAnalyze
    \/ StepScreenAndScore
    \/ StepCalculate
    \/ StepCheckRisks
    \/ StepGenerate

\* Allocation runs: few instruments, varied capital, count and strategy.
Init ==
    \E profile \in {Profile(c, n, {}) : c \in CashChoices, n \in CountChoices},
       batch \in DistinctBatches(AllocKinds, MaxAllocBatch),
       market \in {CalmMarket, FearMarket, GreedMarket, NullMarket} :
        Request(profile, batch, market)

Spec == Init /\ [][Next]_vars

\* Scoring runs: batches of at most MaxBatch instruments over the varied
\* fact profiles, under pairwise distinct symbols in any order.
InitScore ==
    \E k \in 0..MaxBatch :
        \E f \in [1..k -> ScoreFacts], g \in SymbolChoices(k, MaxBatch) :
            Request(Profile(1000, 0, {}), BatchOf(f, g, k), CalmMarket)

SpecScore == InitScore /\ [][Next]_vars

\* Classification runs: every market snapshot of MarketChoices.
InitClassify ==
    \E market \in MarketChoices, batch \in {<<>>, <<BareEtf("A", Absent)>>} :
        Request(Profile(1000, 0, {}), batch, market)

SpecClassify == InitClassify /\ [][Next]_vars

\* Selection runs: batches of up to MaxSelectBatch instruments, most of
\* them qualifying, under two markets of high vix.
InitSelect ==
    \E batch \in DistinctBatches(SelectKinds, MaxSelectBatch),
       c \in SelectCashChoices, n \in SelectCountChoices,
       market \in {FearMarket, PanicMarket} :
        Request(Profile(c, n, {}), batch, market)

SpecSelect == InitSelect /\ [][Next]_vars

\* Malformed-batch runs: batches that may hold entries that are not
\* dictionaries.
InitRobust ==
    \E k \in 0..MaxBatch :
        \E f \in [1..k -> RobustFacts], g \in SymbolChoices(k, MaxBatch),
           c \in CashChoices,
           market \in {CalmMarket, FearMarket, GreedMarket, NullMarket} :
            Request(Profile(c, 0, {}), BatchOf(f, g, k), market)

SpecRobust == InitRobust /\ [][Next]_vars

\* Direct calls of calculate, as a caller of the allocator makes them: the
\* scored list and the strategy are the caller's, and the run ends when
\* calculate has returned.
InitAllocate ==
    \E f \in GivenFinalScores, p \in GivenPrices, m \in GivenMultipliers,
       c \in GivenCashChoices, n \in GivenCountChoices,
       market \in {CalmMarket, FearMarket, GreedMarket} :
        /\ user_profile = Profile(c, n, {})
        /\ etf_data = <<>>
        /\ market_data = market
        /\ market_strategy = Analyze(market)
        /\ etf_scores = [i \in 1..3 |-> GivenScored(Symbols[i], f[i], p[i], m)]
        /\ positions = <<>>
        /\ risk_alerts = <<>>
        /\ advice = "none"
        /\ result = "none"
        /\ escaped = {}
        /\ pc = "calculate"
        /\ OutsideIdle

SpecAllocate == InitAllocate /\ [][StepCalculate]_vars

----------------------------------------------------------------------------
(* Two requests on one engine *)

\* The locals of a call of get_daily_recommendation that has not started.
\* The engine object holds its five collaborators and nothing else, and the
\* collaborators hold no field, so the locals are all the state of a call.
Started(profile, batch, market) ==
    [user_profile |-> profile, etf_data |-> batch, market_data |-> market,
     market_strategy |-> "none", etf_scores |-> <<>>, positions |-> <<>>,
     risk_alerts |-> <<>>, advice |-> "none", result |-> "none",
     pc |-> "analyze"]

\* One step of a second call of get_daily_recommendation: the statement at
\* its position, on its own locals.
AdvanceReadingFirstStrategy(r) ==
    CASE r.pc = "analyze" ->
            [r EXCEPT !.market_strategy = Analyze(r.market_data),
                      !.pc = "score"]
      [] r.pc = "score" ->
            IF ScreenAndScoreRaises(FilteredEtfData(r.user_profile, r.etf_data))
            THEN [r EXCEPT !.result = Failure, !.pc = "done"]
            ELSE [r EXCEPT !.etf_scores =
                               ScreenAndScore(FilteredEtfData(r.user_profile,
                                                              r.etf_data)),
                           !.pc = "calculate"]
      [] r.pc = "calculate" ->
            [r EXCEPT !.positions =
                          Calculate(r.user_profile.available_cash,
                                    IF pc \in {"analyze", "none"}
                                    THEN r.market_strategy
                                    ELSE market_strategy,
                                    r.etf_scores,
                                    r.user_profile.num_etfs_to_invest),
                      !.pc = "check_risks"]
      [] r.pc = "check_risks" ->
            [r EXCEPT !.risk_alerts = CheckRisks(r.etf_scores, r.market_data),
                      !.pc = "generate"]
      [] r.pc = "generate" ->
            [r EXCEPT !.advice = Generate(r.market_strategy, r.etf_scores,
                                          r.risk_alerts, r.user_profile),
                      !.result = [success |-> TRUE,
                                  etf_analysis |->
                                      EtfAnalysis(r.etf_data, r.etf_scores)],
                      !.pc = "done"]
      [] OTHER -> r

Advance(r) ==
    CASE r.pc = "analyze" ->
            [r EXCEPT !.market_strategy = Analyze(r.market_data),
                      !.pc = "score"]
      [] r.pc = "score" ->
            IF ScreenAndScoreRaises(FilteredEtfData(r.user_profile, r.etf_data))
            THEN [r EXCEPT !.result = Failure, !.pc = "done"]
            ELSE [r EXCEPT !.etf_scores =
                               ScreenAndScore(FilteredEtfData(r.user_profile,
                                                              r.etf_data)),
                           !.pc = "calculate"]
      [] r.pc = "calculate" ->
            [r EXCEPT !.positions =
                          Calculate(r.user_profile.available_cash,
                                    r.market_strategy, r.etf_scores,
                                    r.user_profile.num_etfs_to_invest),
                      !.pc = "check_risks"]
      [] r.pc = "check_risks" ->
            [r EXCEPT !.risk_alerts = CheckRisks(r.etf_scores, r.market_data),
                      !.pc = "generate"]
      [] r.pc = "generate" ->
            [r EXCEPT !.advice = Generate(r.market_strategy, r.etf_scores,
                                          r.risk_alerts, r.user_profile),
                      !.result = [success |-> TRUE,
                                  etf_analysis |->
                                      EtfAnalysis(r.etf_data, r.etf_scores)],
                      !.pc = "done"]
      [] OTHER -> r

\* A step of the second request, taken between any two steps of the first.
StepConcurrent ==
    /\ concurrent.pc \notin {"none", "done"}
    /\ concurrent' = Advance(concurrent)
    /\ UNCHANGED <<user_profile, etf_data, market_data, market_strategy,
                   etf_scores, positions, risk_alerts, advice, result,
                   escaped, pc>>
    /\ UNCHANGED <<fetcher, improved_fetcher, portfolio_manager,
                   improved_engine>>

\* The instruments of the interleaved runs: two that qualify and an entry
\* that is not a dictionary.
InterleavedKinds ==
    {Etf("A", Num(100), StrongFundamental, StrongTechnical, StrongLiquidity),
     Etf("C", Num(25), AbsentFundamental, AbsentTechnical, AbsentLiquidity),
     NotADict("B")}

MaxInterleavedBatch == 2

InterleavedCountChoices == {0, 1}

\* The requests of the interleaved runs.
InterleavedRequests ==
    {Started(Profile(1000, n, {}), batch, market) :
        n \in InterleavedCountChoices,
        batch \in DistinctBatches(InterleavedKinds, MaxInterleavedBatch),
        market \in {CalmMarket, FearMarket, GreedMarket}}

\* Interleaved runs: two requests on the same engine, started together.
InitInterleaved ==
    \E first \in InterleavedRequests, second \in InterleavedRequests :
        /\ user_profile = first.user_profile
        /\ etf_data = first.etf_data
        /\ market_data = first.market_data
        /\ market_strategy = "none"
        /\ etf_scores = <<>>
        /\ positions = <<>>
        /\ risk_alerts = <<>>
        /\ advice = "none"
        /\ result = "none"
        /\ escaped = {}
        /\ pc = "analyze"
        /\ concurrent = second
        /\ FetcherIdle
        /\ ImprovedFetcherIdle
        /\ PortfolioManagerIdle
        /\ ImprovedEngineIdle

NextInterleaved ==
    \/ StepAnalyze
    \/ StepScreenAndScore
    \/ StepCalculate
    \/ StepCheckRisks
    \/ StepGenerate
    \/ StepConcurrent

SpecInterleaved == InitInterleaved /\ [][NextInterleaved]_vars

----------------------------------------------------------------------------
(* OptimizedDataFetcher: the cache lock and the batch fetch *)

engine == <<user_profile, etf_data, market_data, market_strategy, etf_scores,
            positions, risk_alerts, advice, result, escaped, pc>>

\* The symbols a batch is made of.
FetchSymbols == {"0050", "0056", "006208"}

MaxFetchBatch == 3

\* What ticker.history and ticker.info give a worker: data, an empty
\* history, or an exception.
FetchOutcomes == {"data", "empty", "exception"}

\* A submitted call of get_etf_data(symbol).
Worker(symbol) == [symbol |-> symbol, pc |-> "submitted", result |-> "none"]

Finished(w) == w.pc \in {"returned", "raised"}

\* Whether thread t can take its next step.  self.cache_lock is a
\* threading.Lock: acquiring it blocks while any thread holds it, the
\* holder included.
\*   submitted  get_etf_data calls _get_from_cache: with self.cache_lock
\*   holding    inside that block, _is_cache_valid: with self.cache_lock
\*   checked    _is_cache_valid has returned; the outer block exits
\*   fetching   the download and the indicators, no lock
\*   storing    _set_cache: with self.cache_lock
CanStep(t) ==
    CASE workers[t].pc \in {"submitted", "holding", "storing"} -> cache_lock = 0
      [] workers[t].pc \in {"checked", "fetching"} -> TRUE
      [] OTHER -> FALSE

\* The worker after its next step, for the outcome the download would have.
WorkerAfter(t, outcome) ==
    LET w == workers[t]
    IN  CASE w.pc = "submitted" -> [w EXCEPT !.pc = "holding"]
          [] w.pc = "holding" ->
                [w EXCEPT !.pc = "checked",
                          !.result = IF w.symbol \in cache THEN "cached"
                                     ELSE "none"]
          [] w.pc = "checked" ->
                IF cache_lock = 0 THEN [w EXCEPT !.pc = "raised"]
                ELSE IF w.result = "cached" THEN [w EXCEPT !.pc = "returned"]
                ELSE [w EXCEPT !.pc = "fetching"]
          [] w.pc = "fetching" ->
                IF outcome = "data"
                THEN [w EXCEPT !.pc = "storing", !.result = "fresh"]
                ELSE [w EXCEPT !.pc = "returned", !.result = "none"]
          [] w.pc = "storing" -> [w EXCEPT !.pc = "returned"]
          [] OTHER -> w

\* The holder of the lock after the step of thread t: entering the outer
\* block takes it; the blocks of _is_cache_valid and _set_cache take and
\* release it; leaving the outer block releases it.
LockAfter(t) ==
    CASE workers[t].pc = "submitted" -> t
      [] workers[t].pc \in {"holding", "checked", "storing"} -> 0
      [] OTHER -> cache_lock

\* get_batch_etf_data submits one get_etf_data call per entry of the batch.
Submit ==
    /\ batch_pc = "submit"
    /\ workers' = [i \in 1..Len(etf_list) |-> Worker(etf_list[i])]
    /\ batch_pc' = "collect"
    /\ UNCHANGED <<etf_list, cache, cache_lock, valid_etfs>>
    /\ UNCHANGED <<engine, concurrent, improved_fetcher, portfolio_manager,
                   improved_engine>>

\* A worker thread takes the next step of get_etf_data.
WorkerStep ==
    /\ batch_pc = "collect"
    /\ \E t \in 1..Len(workers), outcome \in FetchOutcomes :
          /\ CanStep(t)
          /\ workers' = [workers EXCEPT ![t] = WorkerAfter(t, outcome)]
          /\ cache_lock' = LockAfter(t)
          /\ cache' = IF workers[t].pc = "storing"
                      THEN cache \cup {workers[t].symbol}
                      ELSE cache
    /\ UNCHANGED <<etf_list, valid_etfs, batch_pc>>
    /\ UNCHANGED <<engine, concurrent, improved_fetcher, portfolio_manager,
                   improved_engine>>

\* as_completed has yielded every future and the executor has shut down:
\* get_batch_etf_data returns the results that are not None.
Collect ==
    /\ batch_pc = "collect"
    /\ \A t \in 1..Len(workers) : Finished(workers[t])
    /\ valid_etfs' = SelectSeq(workers,
                               LAMBDA w : w.pc = "returned"
                                          /\ w.result # "none")
    /\ batch_pc' = "returned"
    /\ UNCHANGED <<etf_list, workers, cache, cache_lock>>
    /\ UNCHANGED <<engine, concurrent, improved_fetcher, portfolio_manager,
                   improved_engine>>

\* Batch runs: the first call of get_batch_etf_data on a new fetcher.
InitFetch ==
    \E k \in 0..MaxFetchBatch :
        \E batch \in [1..k -> FetchSymbols] :
            /\ EngineIdle
            /\ concurrent = NoRequest
            /\ etf_list = batch
            /\ workers = <<>>
            /\ cache = {}
            /\ cache_lock = 0
            /\ valid_etfs = <<>>
            /\ batch_pc = "submit"
            /\ ImprovedFetcherIdle
            /\ PortfolioManagerIdle
            /\ ImprovedEngineIdle

NextFetch ==
    \/ Submit
    \/ WorkerStep
    \/ Collect

\* The scheduler runs every thread that can run.
SpecFetch ==
    /\ InitFetch
    /\ [][NextFetch]_vars
    /\ WF_vars(Submit)
    /\ WF_vars(WorkerStep)
    /\ WF_vars(Collect)

----------------------------------------------------------------------------
(* ImprovedDataFetcher: the age of a cache entry *)

\* self.cache_ttl, in seconds.
CacheTtl == 300

SecondsPerDay == 86400

\* timedelta.seconds of a difference of d >= 0 seconds: a timedelta is
\* normalised to days, seconds and microseconds, and seconds is the part
\* below one day.
TimedeltaSeconds(d) == d % SecondsPerDay

\* _is_cache_valid(key)
IsCacheValid(key) ==
    /\ key \in DOMAIN data_cache
    /\ TimedeltaSeconds(now - data_cache[key]) < CacheTtl

MaxDays == 2

\* The instants at which the runs look at the clock: around the ttl and
\* around midnight of each day.
Instants ==
    {d * SecondsPerDay + sec :
        d \in 0..MaxDays, sec \in {0, CacheTtl - 1, CacheTtl, SecondsPerDay - 1}}

\* Time passes.
Tick ==
    /\ \E t \in Instants : t > now /\ now' = t
    /\ UNCHANGED <<data_cache, last_call>>
    /\ UNCHANGED <<engine, concurrent, fetcher, portfolio_manager,
                   improved_engine>>

\* The body shared by fetch_etf_data and get_market_overview: serve a valid
\* entry; otherwise download, and store the data with last_updated = now
\* unless the download fails.
Lookup(key, downloaded) ==
    IF IsCacheValid(key)
    THEN /\ last_call' = [key |-> key, source |-> "cache",
                          age |-> now - data_cache[key]]
         /\ UNCHANGED data_cache
    ELSE IF downloaded
    THEN /\ data_cache' = [k \in DOMAIN data_cache \cup {key} |->
                              IF k = key THEN now ELSE data_cache[k]]
         /\ last_call' = [key |-> key, source |-> "fresh", age |-> 0]
    ELSE /\ last_call' = [key |-> key, source |-> "none", age |-> 0]
         /\ UNCHANGED data_cache

\* fetch_etf_data('0050')
FetchEtfData ==
    /\ \E downloaded \in BOOLEAN : Lookup("etf_0050", downloaded)
    /\ UNCHANGED now
    /\ UNCHANGED <<engine, concurrent, fetcher, portfolio_manager,
                   improved_engine>>

\* get_market_overview()
GetMarketOverview ==
    /\ \E downloaded \in BOOLEAN : Lookup("market_overview", downloaded)
    /\ UNCHANGED now
    /\ UNCHANGED <<engine, concurrent, fetcher, portfolio_manager,
                   improved_engine>>

InitCache ==
    /\ EngineIdle
    /\ concurrent = NoRequest
    /\ FetcherIdle
    /\ ImprovedFetcherIdle
    /\ PortfolioManagerIdle
    /\ ImprovedEngineIdle

NextCache ==
    \/ Tick
    \/ FetchEtfData
    \/ GetMarketOverview

SpecCache == InitCache /\ [][NextCache]_vars

----------------------------------------------------------------------------
(* PortfolioManager: transactions and holdings *)

\* A transaction dictionary; missing holds the keys it lacks.
Transaction(symbol, shares, price, type, amount, missing) ==
    [symbol |-> symbol, shares |-> shares, price |-> price, type |-> type,
     amount |-> amount, missing |-> missing]

\* The index of the first holding of the symbol, 0 when there is none.
HoldingIndex(holdings, symbol) ==
    IF \E i \in 1..Len(holdings) : holdings[i].symbol = symbol
    THEN CHOOSE i \in 1..Len(holdings) :
            /\ holdings[i].symbol = symbol
            /\ \A j \in 1..(i - 1) : holdings[j].symbol # symbol
    ELSE 0

\* The list without its i-th element.
Pop(list, i) == [j \in 1..(Len(list) - 1) |-> IF j < i THEN list[j] ELSE list[j + 1]]

\* _update_holdings(portfolio, transaction), for a transaction that has the
\* four keys it reads.
UpdateHoldingsKeepingEmptied(holdings, transaction) ==
    LET i == HoldingIndex(holdings, transaction.symbol)
    IN  IF transaction.type = "buy"
        THEN IF i > 0
             THEN [holdings EXCEPT ![i].shares = @ + transaction.shares]
             ELSE Append(holdings, [symbol |-> transaction.symbol,
                                    shares |-> transaction.shares])
        ELSE IF transaction.type = "sell" /\ i > 0
        THEN IF holdings[i].shares - transaction.shares < 0
             THEN Pop(holdings, i)
             ELSE [holdings EXCEPT ![i].shares = @ - transaction.shares]
        ELSE holdings

UpdateHoldings(holdings, transaction) ==
    LET i == HoldingIndex(holdings, transaction.symbol)
    IN  IF transaction.type = "buy"
        THEN IF i > 0
             THEN [holdings EXCEPT ![i].shares = @ + transaction.shares]
             ELSE Append(holdings, [symbol |-> transaction.symbol,
                                    shares |-> transaction.shares])
        ELSE IF transaction.type = "sell" /\ i > 0
        THEN IF holdings[i].shares - transaction.shares <= 0
             THEN Pop(holdings, i)
             ELSE [holdings EXCEPT ![i].shares = @ - transaction.shares]
        ELSE holdings

\* The stored portfolio get_user_portfolio works on: the user's, created
\* when absent.  The portfolio add_transaction receives is a shallow copy:
\* its transactions and holdings are the lists of the stored portfolio.
StoredPortfolio(user_id) ==
    IF user_id \in DOMAIN portfolios THEN portfolios[user_id]
    ELSE NewPortfolio

\* The stored portfolio after add_transaction(user_id, transaction), and
\* what the call returns.  The append and _update_holdings act on the
\* shared lists; the balance and the cost are stored by the assignment
\* self.portfolios[user_id] = portfolio, which a KeyError skips.
Added(user_id, transaction) ==
    LET stored == StoredPortfolio(user_id)
        appended ==
            [stored EXCEPT !.transactions = Append(@, transaction)]
        updated ==
            [appended EXCEPT !.holdings = UpdateHoldings(@, transaction)]
    IN  IF transaction.missing \cap {"symbol", "shares", "price", "type"} # {}
        THEN [returned |-> FALSE, portfolio |-> appended]
        ELSE IF /\ transaction.type \in {"buy", "sell"}
                /\ "amount" \in transaction.missing
        THEN [returned |-> FALSE, portfolio |-> updated]
        ELSE IF transaction.type = "buy"
        THEN [returned |-> TRUE,
              portfolio |->
                  [updated EXCEPT !.cash_balance = @ - transaction.amount,
                                  !.total_cost = @ + transaction.amount]]
        ELSE IF transaction.type = "sell"
        THEN [returned |-> TRUE,
              portfolio |->
                  [updated EXCEPT !.cash_balance = @ + transaction.amount]]
        ELSE [returned |-> TRUE, portfolio |-> updated]

Users == {"u"}

PortfolioSymbols == {"0050", "0056"}

ShareChoices == {-1000, 1000, 2000}

\* The keys a transaction of the runs may lack.
MissingChoices == {{}, {"symbol"}, {"amount"}}

Transactions ==
    {Transaction(symbol, shares, 10, type, 100, missing) :
        symbol \in PortfolioSymbols, shares \in ShareChoices,
        type \in {"buy", "sell"}, missing \in MissingChoices}

MaxTransactions == 3

\* add_transaction(user_id, transaction)
AddTransaction ==
    /\ \E user_id \in Users, transaction \in Transactions :
          /\ Len(StoredPortfolio(user_id).transactions) < MaxTransactions
          /\ portfolios' =
                 [u \in DOMAIN portfolios \cup {user_id} |->
                     IF u = user_id
                     THEN Added(user_id, transaction).portfolio
                     ELSE portfolios[u]]
          /\ last_added' =
                 [user |-> user_id,
                  returned |-> Added(user_id, transaction).returned,
                  before |-> StoredPortfolio(user_id)]
    /\ UNCHANGED <<engine, concurrent, fetcher, improved_fetcher,
                   improved_engine>>

InitPortfolio ==
    /\ EngineIdle
    /\ concurrent = NoRequest
    /\ FetcherIdle
    /\ ImprovedFetcherIdle
    /\ PortfolioManagerIdle
    /\ ImprovedEngineIdle

SpecPortfolio == InitPortfolio /\ [][AddTransaction]_vars

----------------------------------------------------------------------------
(* ImprovedInvestmentEngine: allocation in lots *)

\* stock_ratio and max_single_etf of a risk level, in hundredths; any level
\* but conservative and aggressive is moderate.
StockRatio(risk_level) ==
    CASE risk_level = "conservative" -> 60
      [] risk_level = "aggressive" -> 90
      [] OTHER -> 75

MaxSingleEtf(risk_level) ==
    CASE risk_level = "conservative" -> 30
      [] risk_level = "aggressive" -> 40
      [] OTHER -> 35

\* Amounts are fractions: base_allocation is
\* min(funds * stock_ratio / etf_count, funds * max_single_etf), kept as a
\* numerator over the denominator 100 * etf_count.
BaseAllocation(recommended_etfs, available_funds, risk_level) ==
    [num |-> Min(available_funds * StockRatio(risk_level),
                 available_funds * MaxSingleEtf(risk_level)
                     * Len(recommended_etfs)),
     den |-> 100 * Len(recommended_etfs)]

\* _calculate_allocation: the instruments in the order recommended, each
\* with the base allocation; nothing for an empty list.
CalculateAllocation(recommended_etfs, available_funds, risk_level) ==
    [i \in 1..Len(recommended_etfs) |->
        [etf |-> recommended_etfs[i],
         amount |-> BaseAllocation(recommended_etfs, available_funds,
                                   risk_level)]]

LotSize == 1000

\* shares = int(amount / current_price / 1000) * 1000, for a price in
\* tenths: int truncates toward zero.
LotSharesRoundedToNearest(amount, price10) ==
    TruncDiv(amount.num * 10 + (amount.den * price10 * LotSize) \div 2,
             amount.den * price10 * LotSize) * LotSize

LotShares(amount, price10) ==
    TruncDiv(amount.num * 10, amount.den * price10 * LotSize) * LotSize

\* The recommendation of one allocated instrument, or none: no data, a
\* price of 0 or less, or less than one lot.  target_amount is in tenths.
Recommends(entry, quote) ==
    /\ IsNum(quote)
    /\ quote[2] > 0
    /\ LotShares(entry.amount, quote[2]) > 0

Recommendation(entry, quote) ==
    [etf |-> entry.etf,
     shares |-> LotShares(entry.amount, quote[2]),
     current_price |-> quote[2],
     target_amount |-> LotShares(entry.amount, quote[2]) * quote[2]]

RECURSIVE GenerateDetailedRecommendations(_, _)
GenerateDetailedRecommendations(alloc, quotes) ==
    IF alloc = <<>> THEN <<>>
    ELSE LET entry == Head(alloc)
             rest == GenerateDetailedRecommendations(Tail(alloc), quotes)
         IN  IF Recommends(entry, quotes[entry.etf])
             THEN <<Recommendation(entry, quotes[entry.etf])>> \o rest
             ELSE rest

\* allocation = self._calculate_allocation(...)
StepCalculateAllocation ==
    /\ advice_pc = "allocate"
    /\ allocation' = CalculateAllocation(advice_request.recommended_etfs,
                                         advice_request.available_funds,
                                         advice_request.risk_level)
    /\ advice_pc' = "recommend"
    /\ UNCHANGED <<advice_request, recommendations>>
    /\ UNCHANGED <<engine, concurrent, fetcher, improved_fetcher,
                   portfolio_manager>>

\* recommendations = self._generate_detailed_recommendations(...)
StepGenerateDetailedRecommendations ==
    /\ advice_pc = "recommend"
    /\ recommendations' =
           GenerateDetailedRecommendations(allocation, advice_request.quotes)
    /\ advice_pc' = "done"
    /\ UNCHANGED <<advice_request, allocation>>
    /\ UNCHANGED <<engine, concurrent, fetcher, improved_fetcher,
                   portfolio_manager>>

AdviceSymbols == {"0050", "0056", "0052"}

MaxRecommended == 3

FundChoices == {-100000, 0, 9000, 100000, 250000}

RiskLevels == {"conservative", "moderate", "aggressive", "absent"}

\* What fetch_etf_data gives for an instrument: nothing, or a price in
\* tenths.
QuoteChoices == {Null, Num(0), Num(105), Num(250), Num(1000)}

\* Advice runs: the instruments selected, their quotes, the funds and the
\* risk level of the profile.
InitAdvice ==
    \E selected \in DistinctBatches(AdviceSymbols, MaxRecommended),
       quotes \in [AdviceSymbols -> QuoteChoices],
       funds \in FundChoices, risk_level \in RiskLevels :
        /\ EngineIdle
        /\ concurrent = NoRequest
        /\ FetcherIdle
        /\ ImprovedFetcherIdle
        /\ PortfolioManagerIdle
        /\ advice_request = [available_funds |-> funds,
                             risk_level |-> risk_level,
                             recommended_etfs |-> selected,
                             quotes |-> quotes]
        /\ allocation = <<>>
        /\ recommendations = <<>>
        /\ advice_pc = "allocate"

NextAdvice ==
    \/ StepCalculateAllocation
    \/ StepGenerateDetailedRecommendations

SpecAdvice == InitAdvice /\ [][NextAdvice]_vars

----------------------------------------------------------------------------
(* Properties of the allocator *)

\* The allocator has returned.
Allocated ==
    pc \in {"check_risks", "generate"} \/ (pc = "done" /\ escaped = {})

RECURSIVE SumAmounts(_)
SumAmounts(list) ==
    IF list = <<>> THEN 0 ELSE Head(list).amount + SumAmounts(Tail(list))

NoneQualifies(scores) ==
    \A i \in 1..Len(scores) : scores[i].final_score < QualifyFloor * 10

PositionSymbols == {positions[i].symbol : i \in 1..Len(positions)}

\* C3 as stated: whenever no scored instrument reaches the qualification
\* floor (final_score >= 40), calculate returns the empty list.
C3_NoQualifierGivesNoPositions ==
    (Allocated /\ NoneQualifies(etf_scores)) => positions = <<>>

\* C3 as amended: when no scored instrument reaches the floor, calculate
\* returns the empty list for the empty scored list, and otherwise at most
\* three positions, all of them for the first three instruments of the
\* scored list.
C3_NoQualifierFallsBackToTopThree ==
    (Allocated /\ NoneQualifies(etf_scores)) =>
        /\ etf_scores = <<>> => positions = <<>>
        /\ Len(positions) <= FallbackCount
        /\ PositionSymbols
             \subseteq {etf_scores[i].symbol :
                          i \in 1..Min(FallbackCount, Len(etf_scores))}

\* A request in which four instruments were scored, none reached the floor,
\* and the fallback produced positions.
C3_Witness ==
    /\ Allocated
    /\ NoneQualifies(etf_scores)
    /\ Len(etf_scores) > FallbackCount
    /\ Len(positions) >= 2

\* The number of instruments the allocator sizes when none qualifies: the
\* first three, cut to the requested count like a qualifying set.
FallbackSelected ==
    LET n == user_profile.num_etfs_to_invest
    IN  Min(IF n > 0 THEN n ELSE AutoCount,
            Min(FallbackCount, Len(etf_scores)))

\* Whether instrument i of the scored list, sized among the first k, can
\* buy one whole unit with its planned amount
\* capital x ratio x weight / total weight.
CanBuyOne(i, k) ==
    LET w == AdjustedWeight(etf_scores[i])
        total == SumWeights(SubSeq(etf_scores, 1, k))
        price == etf_scores[i].current_price
    IN  /\ price > 0
        /\ user_profile.available_cash * market_strategy.investment_ratio * w
             >= 10 * total * price

\* C4: when the scored list is not empty and no instrument reaches the
\* floor, the allocator sizes the three highest-scoring instruments (cut to
\* the requested count, as it cuts a qualifying set): each of them is in
\* the result exactly when its planned amount buys at least one whole
\* unit, and no other instrument is.
C4_FallbackSizedLikeQualified ==
    (Allocated /\ etf_scores # <<>> /\ NoneQualifies(etf_scores)) =>
        /\ \A i \in 1..Len(etf_scores) :
             etf_scores[i].symbol \in PositionSymbols
               <=> (i <= FallbackSelected /\ CanBuyOne(i, FallbackSelected))
        /\ \A i \in 1..Len(etf_scores) :
             i > FallbackCount =>
               etf_scores[i].final_score <= etf_scores[FallbackCount].final_score

\* A request in which no instrument reached the floor, yet the result is
\* not empty, and one of the three fallback instruments was dropped because
\* it could not buy a unit.
C4_Witness ==
    /\ Allocated
    /\ etf_scores # <<>>
    /\ NoneQualifies(etf_scores)
    /\ positions # <<>>
    /\ FallbackSelected = FallbackCount
    /\ Len(positions) < FallbackCount

\* C5: for every capital <= 0 calculate returns the empty list.
C5_NoCapitalGivesNoPositions ==
    (Allocated /\ user_profile.available_cash <= 0) => positions = <<>>

\* A request with negative capital whose scored list holds an instrument
\* of negative price and one of positive price.
C5_Witness ==
    /\ Allocated
    /\ user_profile.available_cash < 0
    /\ \E i \in 1..Len(etf_scores) : etf_scores[i].current_price < 0
    /\ \E i \in 1..Len(etf_scores) : etf_scores[i].current_price > 0

----------------------------------------------------------------------------
(* Properties of the scorer *)

\* The scorer has returned.
Scored ==
    pc \in {"calculate", "check_risks", "generate"}
    \/ (pc = "done" /\ escaped = {})

ScoredSymbols == {etf_scores[i].symbol : i \in 1..Len(etf_scores)}

InputSymbols == {etf_data[i].symbol : i \in 1..Len(etf_data)}

\* The scored entry and the input instrument of a symbol.
ScoredOf(symbol) ==
    etf_scores[CHOOSE i \in 1..Len(etf_scores) : etf_scores[i].symbol = symbol]

InputIndex(symbol) ==
    CHOOSE i \in 1..Len(etf_data) : etf_data[i].symbol = symbol

SymbolRank(symbol) ==
    CHOOSE k \in 1..Len(Symbols) : Symbols[k] = symbol

\* C2: the output of screen_and_score holds exactly one entry for every
\* input instrument whose price is > 0, and no entry for an instrument
\* whose price is 0 or negative.
C2_OutputIsPositivePriceInputs ==
    Scored =>
        /\ ScoredSymbols \subseteq InputSymbols
        /\ Len(etf_scores) = Cardinality(ScoredSymbols)
        /\ \A i \in 1..Len(etf_data) :
             LET price == etf_data[i].current_price
             IN  IsNum(price) =>
                   (etf_data[i].symbol \in ScoredSymbols <=> price[2] > 0)

SortedDescending ==
    \A i, j \in 1..Len(etf_scores) :
        i < j => etf_scores[i].final_score >= etf_scores[j].final_score

\* C6 as stated: the scored list is in descending order of final_score and
\* two instruments of equal final_score are in ascending order of symbol.
C6_SortedTiesBySymbol ==
    /\ SortedDescending
    /\ \A i, j \in 1..Len(etf_scores) :
         (i < j /\ etf_scores[i].final_score = etf_scores[j].final_score)
           => SymbolRank(etf_scores[i].symbol) < SymbolRank(etf_scores[j].symbol)

\* C6 as amended: the scored list is in descending order of final_score and
\* two instruments of equal final_score are in the order they have in the
\* input batch.
C6_SortedTiesInInputOrder ==
    /\ SortedDescending
    /\ \A i, j \in 1..Len(etf_scores) :
         (i < j /\ etf_scores[i].final_score = etf_scores[j].final_score)
           => InputIndex(etf_scores[i].symbol) < InputIndex(etf_scores[j].symbol)

\* A scored list of at least three instruments that was reordered by the
\* sort, with a tie whose symbols are in descending order.
C6_Witness ==
    /\ Len(etf_scores) >= 3
    /\ \E i \in 1..Len(etf_scores) :
         etf_scores[i].symbol # etf_data[i].symbol
    /\ \E i, j \in 1..Len(etf_scores) :
         /\ i < j
         /\ etf_scores[i].final_score = etf_scores[j].final_score
         /\ SymbolRank(etf_scores[i].symbol) > SymbolRank(etf_scores[j].symbol)

\* A score in tenths that lies in [0, 100].
InRange(score10) == 0 <= score10 /\ score10 <= 1000

\* C7: each of the four sub-scores and the final_score of every scored
\* instrument lies in [0, 100].
C7_ScoresWithinRange ==
    \A i \in 1..Len(etf_scores) :
        /\ InRange(etf_scores[i].scores.fundamental)
        /\ InRange(etf_scores[i].scores.technical)
        /\ InRange(etf_scores[i].scores.liquidity)
        /\ InRange(etf_scores[i].scores.price_level)
        /\ InRange(etf_scores[i].final_score)

\* A group that is missing or None, or that has a missing or None fact.
FundamentalIncomplete(g) ==
    \/ g.kind # "dict"
    \/ \E v \in {g.expense_ratio, g.aum, g.dividend_yield, g.sharpe_ratio} :
         ~IsNum(v)

LiquidityIncomplete(g) ==
    \/ g.kind # "dict"
    \/ \E v \in {g.avg_volume, g.volume_volatility, g.bid_ask_spread} :
         ~IsNum(v)

TechnicalIncomplete(g) ==
    \/ g.kind # "dict"
    \/ \E v \in {g.rsi, g.macd, g.signal, g.ma_current_price, g.ma20, g.ma50,
                 g.bb_upper, g.bb_lower, g.bb_middle} : ~IsNum(v)

PriceLevelIncomplete(g) == g.kind # "dict" \/ ~IsNum(g.price_percentile)

IsBare(etf) ==
    /\ etf.fundamental_indicators.kind = "absent"
    /\ etf.technical_indicators.kind = "absent"
    /\ etf.liquidity_indicators.kind = "absent"

\* C8 as stated: every input instrument is scored, and a sub-score whose
\* fact group is missing or None, or has a missing or None fact, is 50.
C8_MissingFactGivesNeutral ==
    Scored =>
        /\ ScoredSymbols = InputSymbols
        /\ \A i \in 1..Len(etf_data) :
             LET etf == etf_data[i]
                 scores == ScoredOf(etf.symbol).scores
             IN  /\ FundamentalIncomplete(etf.fundamental_indicators)
                      => scores.fundamental = 500
                 /\ TechnicalIncomplete(etf.technical_indicators)
                      => scores.technical = 500
                 /\ LiquidityIncomplete(etf.liquidity_indicators)
                      => scores.liquidity = 500
                 /\ PriceLevelIncomplete(etf.technical_indicators)
                      => scores.price_level = 500

\* C8 as amended: every input instrument is scored; a sub-score is 50 when
\* its fact group is None or when one of its facts is None (for the
\* technical sub-score: the rsi); a missing group takes the defaults of
\* its facts, which give fundamental 45.0, technical 56.5, liquidity 15.0
\* and price level 50.0, so the instrument with only symbol, name and price
\* gets these four sub-scores.
C8_NoneGivesNeutralMissingGivesDefaults ==
    Scored =>
        /\ ScoredSymbols = InputSymbols
        /\ \A i \in 1..Len(etf_data) :
             LET etf == etf_data[i]
                 f == etf.fundamental_indicators
                 t == etf.technical_indicators
                 l == etf.liquidity_indicators
                 scores == ScoredOf(etf.symbol).scores
             IN  /\ (\/ f.kind = "null"
                     \/ f.kind = "dict"
                        /\ \E v \in {f.expense_ratio, f.aum, f.dividend_yield,
                                     f.sharpe_ratio} : IsNull(v))
                      => scores.fundamental = 500
                 /\ (t.kind = "null" \/ (t.kind = "dict" /\ IsNull(t.rsi)))
                      => scores.technical = 500
                 /\ (\/ l.kind = "null"
                     \/ l.kind = "dict"
                        /\ \E v \in {l.avg_volume, l.volume_volatility,
                                     l.bid_ask_spread} : IsNull(v))
                      => scores.liquidity = 500
                 /\ (\/ t.kind = "null"
                     \/ t.kind = "dict" /\ IsNull(t.price_percentile))
                      => scores.price_level = 500
                 /\ f.kind = "absent" => scores.fundamental = 450
                 /\ t.kind = "absent" => /\ scores.technical = 565
                                         /\ scores.price_level = 500
                 /\ l.kind = "absent" => scores.liquidity = 150

\* A scored batch with an instrument that carries only symbol, name and
\* price and an instrument with a None fact or a None group.
C8_Witness ==
    /\ Scored
    /\ \E i \in 1..Len(etf_data) :
         IsBare(etf_data[i]) /\ IsNum(etf_data[i].current_price)
    /\ \E i \in 1..Len(etf_data) :
         LET etf == etf_data[i]
         IN  \/ etf.fundamental_indicators.kind = "null"
             \/ etf.technical_indicators.kind = "null"
             \/ IsNull(etf.liquidity_indicators.volume_volatility)

----------------------------------------------------------------------------
(* Properties of the classifier *)

\* The classifier has returned.
Classified == pc # "analyze"

\* C9: for every market snapshot, with missing or None fields too, analyze
\* returns a strategy among aggressive, balanced and conservative, an
\* investment ratio in (0, 1] and the three component sub-scores.
C9_CompleteStrategy ==
    Classified =>
        /\ market_strategy.strategy
             \in {"aggressive", "balanced", "conservative"}
        /\ 0 < market_strategy.investment_ratio
        /\ market_strategy.investment_ratio <= 10
        /\ {"vix_score", "technical_score", "economic_score"}
             \subseteq DOMAIN market_strategy.scores

\* The snapshot vix = 40, taiex_rsi = 50, economic_indicator green and no
\* taiex_trend.
BoundarySnapshot == Market(Num(40), Num(50), "absent", "green")

\* C10 as stated: for the boundary snapshot the total score is at least 65
\* and the strategy is aggressive with investment ratio 0.8.
C10_BoundaryIsAggressive ==
    (Classified /\ market_data = BoundarySnapshot) =>
        /\ market_strategy.scores.total_score >= AggressiveThreshold * 10
        /\ market_strategy.strategy = "aggressive"
        /\ market_strategy.investment_ratio = 8

\* C10 as amended: for the boundary snapshot the total score is 60.5,
\* under the aggressive threshold, and the strategy is always balanced
\* with investment ratio 0.6.
C10_BoundaryIsBalanced ==
    (Classified /\ market_data = BoundarySnapshot) =>
        /\ market_strategy.scores.total_score = 605
        /\ market_strategy.scores.total_score < AggressiveThreshold * 10
        /\ market_strategy.strategy = "balanced"
        /\ market_strategy.investment_ratio = 6

\* The boundary snapshot has been classified.
C10_Witness ==
    /\ Classified
    /\ market_data = BoundarySnapshot
    /\ market_strategy.scores.vix_score = 850

\* The snapshot is valid: analyze does not take its except branch.
ValidSnapshot == Classified /\ ~AnalyzeRaises(market_data)

\* C11: for every valid snapshot the reported total_score is
\* 0.3 x vix_score + 0.4 x technical_score + 0.3 x economic_score, and the
\* strategy follows from it: aggressive with ratio 0.8 from 65 up,
\* balanced with ratio 0.6 from 35 up, conservative with ratio 0.4 below;
\* the ratio is never 0.
C11_StrategyFollowsTotalScore ==
    ValidSnapshot =>
        LET scores == market_strategy.scores
            total == scores.total_score
        IN  /\ 10 * total = 3 * scores.vix_score + 4 * scores.technical_score
                            + 3 * scores.economic_score
            /\ total >= 650 =>
                 /\ market_strategy.strategy = "aggressive"
                 /\ market_strategy.investment_ratio = 8
            /\ (350 <= total /\ total < 650) =>
                 /\ market_strategy.strategy = "balanced"
                 /\ market_strategy.investment_ratio = 6
            /\ total < 350 =>
                 /\ market_strategy.strategy = "conservative"
                 /\ market_strategy.investment_ratio = 4
            /\ market_strategy.investment_ratio > 0

\* A valid snapshot whose total score is exactly the aggressive threshold.
C11_Witness ==
    /\ ValidSnapshot
    /\ market_strategy.scores.total_score = 650
    /\ market_strategy.strategy = "aggressive"

----------------------------------------------------------------------------
(* Properties of the risk monitor *)

\* The risk monitor has returned.
RiskChecked == pc = "generate" \/ (pc = "done" /\ escaped = {})

\* C12 as stated: in the alert list no alert of level high comes after an
\* alert of level medium or low.
C12_HighAlertsFirst ==
    \A i, j \in 1..Len(risk_alerts) :
        i < j => ~(/\ risk_alerts[i].level \in {"medium", "low"}
                   /\ risk_alerts[j].level = "high")

\* The place of a check in check_risks.
CheckRank(type) ==
    CASE type = "market_risk" -> 1
      [] type = "valuation_risk" -> 2
      [] type = "technical_risk" -> 3
      [] type = "volatility_risk" -> 4

\* C12 as amended: the alert list is in the order of the checks (breadth,
\* valuation, technical, volatility), with at most one alert of each; the
\* breadth alert is high or medium, the valuation and technical alerts are
\* medium and the volatility alert is high, so a high volatility alert
\* comes after every medium alert of the list.
C12_AlertsInCheckOrder ==
    /\ \A i, j \in 1..Len(risk_alerts) :
         i < j => CheckRank(risk_alerts[i].type) < CheckRank(risk_alerts[j].type)
    /\ \A i \in 1..Len(risk_alerts) :
         LET alert == risk_alerts[i]
         IN  CASE alert.type = "market_risk" ->
                    alert.level \in {"high", "medium"}
               [] alert.type \in {"valuation_risk", "technical_risk"} ->
                    alert.level = "medium"
               [] alert.type = "volatility_risk" -> alert.level = "high"
               [] OTHER -> FALSE

\* An alert list with a high breadth alert, a medium valuation alert and a
\* high volatility alert, in that order.
C12_Witness ==
    /\ RiskChecked
    /\ Len(risk_alerts) = 3
    /\ risk_alerts[1] = Alert("market_risk", "high")
    /\ risk_alerts[2].level = "medium"
    /\ risk_alerts[3] = Alert("volatility_risk", "high")

AlertTypes == {risk_alerts[i].type : i \in 1..Len(risk_alerts)}

HasHighAlert(type) ==
    \E i \in 1..Len(risk_alerts) : risk_alerts[i] = Alert(type, "high")

\* The value a check reads from the snapshot is a number over its
\* threshold (a missing field has the default, which is under it).
Breached(v, default, threshold) ==
    /\ market_data.kind = "dict"
    /\ IsNum(Get(v, default))
    /\ Get(v, default)[2] > threshold

\* C13: the four checks are independent: each emits its alert exactly when
\* its own inputs breach its threshold, whatever the inputs of the other
\* checks are (a None taiex_rsi or vix, a missing snapshot).
C13_ChecksAreIndependent ==
    RiskChecked =>
        /\ "market_risk" \in AlertTypes <=> BreadthAlerts(etf_scores) # <<>>
        /\ "valuation_risk" \in AlertTypes
             <=> ValuationAlerts(etf_scores) # <<>>
        /\ "technical_risk" \in AlertTypes
             <=> Breached(market_data.taiex_rsi, 50, 75)
        /\ "volatility_risk" \in AlertTypes
             <=> Breached(market_data.vix, 20, 35)

\* C14: for a scored list without a green instrument and a snapshot with
\* vix = 40, the alert list holds a high market_risk alert and a high
\* volatility_risk alert.
C14_NoGreenAndVix40GiveHighAlerts ==
    (/\ RiskChecked
     /\ \A i \in 1..Len(etf_scores) : etf_scores[i].rating # "green"
     /\ market_data.kind = "dict"
     /\ market_data.vix = Num(40)) =>
        /\ HasHighAlert("market_risk")
        /\ HasHighAlert("volatility_risk")

----------------------------------------------------------------------------
(* Properties of the whole request *)

\* C15: no operation of the engine lets an exception out, also for a
\* batch with entries that are not well-formed records; the request ends
\* with a complete result or with a failure that has success = false.
C15_NoExceptionEscapes ==
    /\ escaped = {}
    /\ pc = "done" => result.success \in BOOLEAN

Advised == pc = "done" /\ escaped = {}

TierOfReported(final_score) ==
    IF final_score >= 700 THEN "green"
    ELSE IF final_score >= 500 THEN "yellow"
    ELSE IF final_score >= 300 THEN "orange"
    ELSE "red"

\* C16: every scored instrument carries the tier of its reported
\* final_score (green from 70, yellow from 50, orange from 30, red below),
\* and the number of instruments the advice generator counts with
\* final_score >= 70 equals the number of green instruments in its
\* distribution.
C16_TiersFollowReportedScore ==
    /\ Scored =>
          \A i \in 1..Len(etf_scores) :
              etf_scores[i].rating = TierOfReported(etf_scores[i].final_score)
    /\ Advised =>
          Len(HighScoreEtfs(etf_scores)) = advice.etf_distribution.green_lights

SubScores(etf) ==
    {etf.scores.fundamental, etf.scores.technical,
     etf.scores.liquidity, etf.scores.price_level}

SetMin(S) == CHOOSE x \in S : \A y \in S : x <= y

SetMax(S) == CHOOSE x \in S : \A y \in S : x >= y

\* The 0.3 / 0.4 / 0.15 / 0.15 sum of the reported sub-scores of a scored
\* instrument, in thousandths.
WeightedSubScores(etf) ==
    30 * etf.scores.fundamental + 40 * etf.scores.technical
    + 15 * etf.scores.liquidity + 15 * etf.scores.price_level

\* C18: the final_score of a scored instrument is the 0.3 / 0.4 / 0.15 /
\* 0.15 combination of its four sub-scores (up to a tenth, which the
\* rounding of the reported values to one decimal can put between the two)
\* and lies between the smallest and the largest of them.
C18_FinalScoreIsConvexCombination ==
    Scored =>
        \A i \in 1..Len(etf_scores) :
            LET etf == etf_scores[i]
                gap == 100 * etf.final_score - WeightedSubScores(etf)
            IN  /\ SetMin(SubScores(etf)) <= etf.final_score
                /\ etf.final_score <= SetMax(SubScores(etf))
                /\ -100 <= gap /\ gap <= 100

\* An instrument whose four sub-scores differ pairwise has been scored,
\* its final score strictly between the smallest and the largest, and an
\* instrument with a sub-score below 0 or above 100.
C18_Witness ==
    /\ Scored
    /\ \E i \in 1..Len(etf_scores) :
          /\ Cardinality(SubScores(etf_scores[i])) = 4
          /\ SetMin(SubScores(etf_scores[i])) < etf_scores[i].final_score
          /\ etf_scores[i].final_score < SetMax(SubScores(etf_scores[i]))
    /\ \E i \in 1..Len(etf_scores) :
          \/ SetMin(SubScores(etf_scores[i])) < 0
          \/ SetMax(SubScores(etf_scores[i])) > 1000

----------------------------------------------------------------------------
(* Properties of the weights and of the selection *)

\* The sum of the raw weights of the positions; the normalized weight of a
\* position is its raw weight over the total raw weight of the selected
\* set, and the reported weight is 100 times that.
RECURSIVE SumPositionWeights(_)
SumPositionWeights(list) ==
    IF list = <<>> THEN 0
    ELSE Head(list).weight[1] + SumPositionWeights(Tail(list))

SelectedCount ==
    Len(SelectedEtfs(etf_scores, user_profile.num_etfs_to_invest))

Qualifying == SelectSeq(etf_scores, LAMBDA e : e.final_score >= QualifyFloor * 10)

\* The number of instruments the request asks for: the explicit count, or
\* five for the count 0.
SelectionLimit ==
    IF user_profile.num_etfs_to_invest > 0
    THEN user_profile.num_etfs_to_invest
    ELSE AutoCount

SymbolsOf(list) == {list[i].symbol : i \in 1..Len(list)}

\* C20: calculate returns at most N positions for an explicit count N > 0
\* and at most five for the count 0, all of them for instruments among the
\* first N (the first five) of the qualifying instruments of the scored
\* list.
C20_PositionsFromQualifyingPrefix ==
    Allocated =>
        /\ Len(positions) <= SelectionLimit
        /\ PositionSymbols \subseteq SymbolsOf(Prefix(Qualifying, SelectionLimit))

\* C20, amended: the positions are at most N (five for the count 0) and are
\* for instruments among the first N (five) of the qualifying instruments
\* or, when no instrument qualifies, among the first N (five) of the first
\* three instruments of the scored list; each instrument has at most one
\* position.
C20_PositionsFromSelectedPrefix ==
    Allocated =>
        LET pool == IF Qualifying # <<>> THEN Qualifying
                    ELSE Prefix(etf_scores, FallbackCount)
        IN  /\ Len(positions) <= SelectionLimit
            /\ PositionSymbols \subseteq SymbolsOf(Prefix(pool, SelectionLimit))
            /\ Cardinality(PositionSymbols) = Len(positions)

\* Six instruments qualify and the count is 0: the first five have a
\* position and the sixth has none.
C20_Witness ==
    /\ Allocated
    /\ user_profile.num_etfs_to_invest = 0
    /\ Len(Qualifying) > AutoCount
    /\ Len(positions) = AutoCount
    /\ Qualifying[AutoCount + 1].symbol \notin PositionSymbols

----------------------------------------------------------------------------
(* The allocation scenario *)

\* Capital 100000, ratio 0.6, three instruments of final scores 90, 70 and
\* 50 at the prices 100, 50 and 25, with equal safety multipliers; the
\* count is the automatic one (0) or leaves the three selected (3).
ScenarioGiven ==
    /\ user_profile.available_cash = 100000
    /\ user_profile.num_etfs_to_invest \in {0, 3}
    /\ market_strategy.investment_ratio = 6
    /\ Len(etf_scores) = 3
    /\ \A i \in 1..3 :
          /\ etf_scores[i].final_score = <<900, 700, 500>>[i]
          /\ etf_scores[i].current_price = <<100, 50, 25>>[i]
          /\ etf_scores[i].price_level.safety_multiplier
               = etf_scores[1].price_level.safety_multiplier

\* C21: in the scenario (with the automatic count, or the count 3)
\* calculate returns exactly three positions, in the
\* order of the scored list, whose amounts do not increase, are each a
\* whole number of units at the instrument's price and sum to at most
\* 60000.
C21_ScenarioAllocation ==
    (Allocated /\ ScenarioGiven) =>
        /\ Len(positions) = 3
        /\ \A i \in 1..3 :
              /\ positions[i].symbol = etf_scores[i].symbol
              /\ positions[i].shares >= 1
              /\ positions[i].price = etf_scores[i].current_price
              /\ positions[i].amount = positions[i].shares * positions[i].price
        /\ positions[1].amount >= positions[2].amount
        /\ positions[2].amount >= positions[3].amount
        /\ SumAmounts(positions) <= 60000

\* The scenario has been allocated: 257, 400 and 571 units.
C21_Witness ==
    /\ Allocated
    /\ ScenarioGiven
    /\ Len(positions) = 3
    /\ <<positions[1].amount, positions[2].amount, positions[3].amount>>
         = <<25700, 20000, 14275>>

----------------------------------------------------------------------------
(* Monotonicity of the market classifier *)

\* The snapshots that differ from md in a vix that is not lower, and in a
\* taiex_rsi that is not lower.
RaisedVix(md) ==
    {[md EXCEPT !.vix = v] :
        v \in {w \in VixChoices : IsNum(w) /\ w[2] >= md.vix[2]}}

RaisedRsi(md) ==
    {[md EXCEPT !.taiex_rsi = r] :
        r \in {w \in RsiChoices : IsNum(w) /\ w[2] >= md.taiex_rsi[2]}}

\* C26: for a valid snapshot, a snapshot with a higher vix and the other
\* fields equal has a vix_score, a total_score and an investment_ratio
\* that are not lower, and a snapshot with a higher taiex_rsi has a
\* technical_score, a total_score and an investment_ratio that are not
\* higher.
C26_ClassifierIsMonotone ==
    ValidSnapshot =>
        /\ IsNum(market_data.vix) =>
              \A md \in RaisedVix(market_data) :
                  LET raised == Analyze(md)
                  IN  /\ raised.scores.vix_score
                           >= market_strategy.scores.vix_score
                      /\ raised.scores.total_score
                           >= market_strategy.scores.total_score
                      /\ raised.investment_ratio
                           >= market_strategy.investment_ratio
        /\ IsNum(market_data.taiex_rsi) =>
              \A md \in RaisedRsi(market_data) :
                  LET raised == Analyze(md)
                  IN  /\ raised.scores.technical_score
                           <= market_strategy.scores.technical_score
                      /\ raised.scores.total_score
                           <= market_strategy.scores.total_score
                      /\ raised.investment_ratio
                           <= market_strategy.investment_ratio

\* A valid snapshot that a higher vix moves to a higher investment_ratio
\* and a higher taiex_rsi to a lower one.
C26_Witness ==
    /\ ValidSnapshot
    /\ IsNum(market_data.vix)
    /\ IsNum(market_data.taiex_rsi)
    /\ \E md \in RaisedVix(market_data) :
          Analyze(md).investment_ratio > market_strategy.investment_ratio
    /\ \E md \in RaisedRsi(market_data) :
          Analyze(md).investment_ratio < market_strategy.investment_ratio

----------------------------------------------------------------------------
(* Properties of the advice *)

\* C22: the risk_level of the advice is 'high' for more than two risk
\* alerts, 'medium' for one or two and 'low' for none.
C22_RiskLevelFollowsAlertCount ==
    Advised =>
        advice.risk_level =
            IF Len(risk_alerts) > 2 THEN "high"
            ELSE IF Len(risk_alerts) >= 1 THEN "medium"
            ELSE "low"

\* C23: the four counts of the advice's distribution sum to the number of
\* scored instruments; for an empty scored list and no risk alert they are
\* all zero, the risk_level is 'low' and specific_advice is empty.
C23_DistributionCountsScoredList ==
    Advised =>
        LET d == advice.etf_distribution
        IN  /\ d.green_lights + d.yellow_lights + d.orange_lights
                 + d.red_lights = Len(etf_scores)
            /\ (etf_scores = <<>> /\ risk_alerts = <<>>) =>
                  /\ advice.risk_level = "low"
                  /\ advice.specific_advice = <<>>

----------------------------------------------------------------------------
(* Re-entrancy of the engine *)

\* What get_daily_recommendation returns for a request that runs alone:
\* the strategy, the positions, the advice and the risk alerts.
Alone(profile, batch, market) ==
    LET filtered == FilteredEtfData(profile, batch)
        strategy == Analyze(market)
    IN  IF ScreenAndScoreRaises(filtered)
        THEN Failure
        ELSE LET scores == ScreenAndScore(filtered)
                 alerts == CheckRisks(scores, market)
             IN  [success |-> TRUE,
                  strategy |-> strategy,
                  positions |-> Calculate(profile.available_cash, strategy,
                                          scores, profile.num_etfs_to_invest),
                  advice |-> Generate(strategy, scores, alerts, profile),
                  risk_alerts |-> alerts]

\* What the first request returned.
ReturnedFirst ==
    IF result = Failure THEN Failure
    ELSE [success |-> TRUE, strategy |-> market_strategy,
          positions |-> positions, advice |-> advice,
          risk_alerts |-> risk_alerts]

\* What the second request returned.
ReturnedConcurrent ==
    IF concurrent.result = Failure THEN Failure
    ELSE [success |-> TRUE, strategy |-> concurrent.market_strategy,
          positions |-> concurrent.positions, advice |-> concurrent.advice,
          risk_alerts |-> concurrent.risk_alerts]

InputsUntouched ==
    /\ user_profile' = user_profile
    /\ etf_data' = etf_data
    /\ market_data' = market_data
    /\ concurrent'.user_profile = concurrent.user_profile
    /\ concurrent'.etf_data = concurrent.etf_data
    /\ concurrent'.market_data = concurrent.market_data

EachReturnsAsAlone ==
    /\ pc = "done" =>
          ReturnedFirst = Alone(user_profile, etf_data, market_data)
    /\ concurrent.pc = "done" =>
          ReturnedConcurrent = Alone(concurrent.user_profile,
                                     concurrent.etf_data,
                                     concurrent.market_data)

\* C24: no step of a request changes the profile, the batch or the market
\* snapshot of either request, and each of two interleaved requests on one
\* engine returns the strategy, positions, advice and risk alerts it
\* returns when it runs alone.
C24_InterleavedRequestsAreIndependent ==
    [][InputsUntouched]_vars /\ []EachReturnsAsAlone

\* Both requests have returned, with different strategies and positions.
C24_Witness ==
    /\ pc = "done"
    /\ concurrent.pc = "done"
    /\ result # Failure
    /\ concurrent.result # Failure
    /\ concurrent.market_strategy # market_strategy
    /\ positions # <<>>
    /\ concurrent.positions # <<>>
    /\ concurrent.positions # positions

----------------------------------------------------------------------------
(* Termination of the batch fetch *)

\* C25: every submitted call of get_etf_data eventually returns and
\* get_batch_etf_data eventually returns, under every interleaving of the
\* worker threads.
C25_BatchFetchTerminates ==
    <>(/\ batch_pc = "returned"
       /\ \A t \in 1..Len(workers) : Finished(workers[t]))

----------------------------------------------------------------------------
(* Expiry of the data cache *)

\* C27: an entry is served from the cache only while it is younger than
\* cache_ttl: whatever its age, an entry of 300 seconds or more is not
\* served.
C27_OnlyYoungEntriesAreServed ==
    last_call.source = "cache" => last_call.age < CacheTtl

----------------------------------------------------------------------------
(* Properties of the portfolio *)

\* C28: when add_transaction returns False the stored portfolio of the
\* user is what it was before the call: the same transactions, holdings,
\* cash_balance and total_cost.
C28_FailedAddLeavesPortfolio ==
    (last_added.user # "none" /\ ~last_added.returned) =>
        portfolios[last_added.user] = last_added.before

\* Whether every transaction recorded for the user has a positive share
\* count.
OnlyPositiveShares(user_id) ==
    \A i \in 1..Len(portfolios[user_id].transactions) :
        portfolios[user_id].transactions[i].shares > 0

\* C29: after buy and sell transactions with positive share counts the
\* holdings hold each symbol at most once and every holding has shares > 0.
C29_HoldingsDistinctAndPositive ==
    \A user_id \in DOMAIN portfolios :
        OnlyPositiveShares(user_id) =>
            LET holdings == portfolios[user_id].holdings
            IN  /\ \A i, j \in 1..Len(holdings) :
                      holdings[i].symbol = holdings[j].symbol => i = j
                /\ \A i \in 1..Len(holdings) : holdings[i].shares > 0

\* A buy and a later sell of all its shares are recorded, and the one
\* holding that remains is of the other symbol.
C29_Witness ==
    /\ "u" \in DOMAIN portfolios
    /\ OnlyPositiveShares("u")
    /\ Len(portfolios["u"].transactions) = MaxTransactions
    /\ \E i, j \in 1..MaxTransactions :
          LET a == portfolios["u"].transactions[i]
              b == portfolios["u"].transactions[j]
          IN  /\ i < j
              /\ a.type = "buy" /\ b.type = "sell"
              /\ a.symbol = b.symbol /\ a.shares = b.shares
              /\ a.missing = {} /\ b.missing = {}
              /\ Len(portfolios["u"].holdings) = 1
              /\ portfolios["u"].holdings[1].symbol # a.symbol

----------------------------------------------------------------------------
(* Lots and budget of the improved engine *)

RECURSIVE SumTargetAmounts(_)
SumTargetAmounts(recs) ==
    IF recs = <<>> THEN 0
    ELSE Head(recs).target_amount + SumTargetAmounts(Tail(recs))

\* Whether the recommendation is in whole lots and within the allocation
\* of one instrument, min(funds x stock_ratio / n, funds x max_single_etf).
LotAlignedWithinAllocation(r) ==
    LET funds == advice_request.available_funds
        risk_level == advice_request.risk_level
        n == Len(advice_request.recommended_etfs)
    IN  /\ r.shares > 0
        /\ r.shares % LotSize = 0
        /\ r.target_amount = r.shares * r.current_price
        /\ r.target_amount * n * 100 <= 10 * funds * StockRatio(risk_level)
        /\ r.target_amount * 100 <= 10 * funds * MaxSingleEtf(risk_level)

SumWithinStockFunds ==
    SumTargetAmounts(recommendations) * 100
        <= 10 * advice_request.available_funds
              * StockRatio(advice_request.risk_level)

=============================================================================
